---- MODULE Spec2Model ----
(***************************************************************************)
(* A model of the ChessBot move selection (src/server/stockfishServer.js), *)
(* the per-game session (GameState, src/bot/lichessBot.js) and the smack   *)
(* mode controller.                                                        *)
(*                                                                         *)
(* Several specifications share the module:                                *)
(*   SpecSelect  pickGaslightMove applied to bounded engine results        *)
(*   SpecSmack   updateSmackModeStatus applied to bounded inputs           *)
(*   Spec        the incoming-message handler driving one GameState        *)
(*   SpecPair    the same handler driving two GameStates that are fed the  *)
(*               same move-carrying events but different version numbers   *)
(*               and different non-move traffic                            *)
(*   SpecTime    processMovetimeSettings applied to bounded inputs         *)
(*   SpecOpening the handler fed colour detection and a long run of moves, *)
(*               past the end of the scripted opening                      *)
(*   SpecPlay    the handler fed moves with differing clock readings and   *)
(*               game ends, the gaslighting toggle and the reading recorded*)
(*   SpecSpeed   the movetime adjustments of the successive decisions of a  *)
(*               game, with the movetime the page holds                    *)
(*   SpecEngine  HTTP requests to the move server driving the one engine   *)
(*   SpecEngineLive  the same endpoints with an engine process that may    *)
(*               stop answering, under the event loop's fairness           *)
(*   SpecStart   the handler at each of its awaits around the start and    *)
(*               the end of a game, with the page the bot runs on          *)
(*   SpecStartLive  the same under the fairness of the event loop and of   *)
(*               the page's pings                                          *)
(*   SpecReentry the message handler as the async function it is: a        *)
(*               handler waiting for the move server is suspended while    *)
(*               the handlers of later messages run                        *)
(***************************************************************************)
EXTENDS Integers, Sequences, FiniteSets, TLC

VARIABLES
    \* ---- SpecSelect: one call of pickGaslightMove
    result,        \* the engine's answer to go(): [bestmove, info]
    cfg,           \* the configuration loadConfig() returned to that call
    moveInfo,      \* what pickGaslightMove returned
    selectedScore, \* its local variable selectedScore (the chosen key)
    \* ---- SpecSmack: one call of updateSmackModeStatus
    smackArgs,     \* its arguments and the thresholds
    smackAfter,    \* "none" before the call; then "on" / "off": smackModeEnabled
    \* ---- Spec: the bot process
    gameState,     \* const gameState = new GameState()
    rematchAccepted, \* let rematchAccepted
    queueTimers,   \* newGame() calls waiting in their autoStartDelay
    lastMsg,       \* the message handled last
    fx,            \* what handling it did
    fresh,         \* no message handled since construction or the last endData
    \* ---- SpecOpening: the bot process, with a record of the game
    lastEnv,       \* the page state and server answer lastMsg was handled under
    past,          \* what has happened since the game began
    \* ---- SpecPlay: the bot process, with a record of the last move event
    lastPlay,      \* the gaslighting toggle and clock reading it was handled under
    \* ---- SpecPair: two bot processes fed the same moves
    pairA,
    pairB,
    \* ---- SpecTime: one call of processMovetimeSettings
    timeArgs,      \* its arguments, gameState fields and configuration
    timeOut,       \* "idle" before the call; then what the call did
    windowMovetime, \* window.movetime, the value fetchPageVariable reads
    \* ---- SpecEngine: the move server
    queries,       \* the HTTP requests being handled, each at one await
    engine,        \* const engine = new Engine(engine_path)
    \* ---- SpecReentry: the bot process with suspended handlers
    reGame,        \* gameState
    rePending,     \* the handlers suspended at their query to the move server
    reSent,        \* what the last step sent to the game
    \* ---- SpecStart: the bot process at the awaits of game start and end
    stGame,        \* gameState
    stRematch,     \* rematchAccepted
    stHandlers,    \* the handler invocations, each at one await
    stSent,        \* what the last step sent: a move, or the page to the lobby
    stPage,        \* the page: a game is running, the bot's colour, the toggle
    stSeen         \* first moves sent in this game; game end being handled,
                   \* rematchTaken received since

selectVars == <<result, cfg, moveInfo, selectedScore>>
smackVars == <<smackArgs, smackAfter>>
sessionVars == <<gameState, rematchAccepted, queueTimers, lastMsg, fx, fresh, lastEnv, past, lastPlay>>
pairVars == <<pairA, pairB>>
timeVars == <<timeArgs, timeOut, windowMovetime>>
engineVars == <<queries, engine>>
startVars == <<stGame, stRematch, stHandlers, stSent, stPage, stSeen>>
reentryVars == <<reGame, rePending, reSent, startVars>>
laterVars == <<timeVars, engineVars, reentryVars>>

vars == <<selectVars, smackVars, sessionVars, pairVars, laterVars>>

(***************************************************************************)
(* Bounds of the model                                                     *)
(***************************************************************************)
MaxLines == 3      \* info lines in a generated engine result
MaxMoves == 4      \* moves counted in one game
MaxTimers == 1     \* newGame() delays running at once
MaxVariance == 1
MaxOpening == 11   \* moves counted in a game of SpecOpening
MaxRequests == 2   \* HTTP requests the move server handles at once
MaxPending == 2    \* handlers waiting for the move server at once

(***************************************************************************)
(* Values the bounded inputs are drawn from                                *)
(***************************************************************************)
NoValue == "none"                       \* JavaScript null / undefined
NoMoveInfo == [move |-> NoValue, depth |-> 0, score |-> 0, scoreunit |-> NoValue]

\* an incoming message: its type t and whether d.uci is present
Msg(t, uci) == [t |-> t, uci |-> uci]
NoMsg == Msg(NoValue, FALSE)
CpScores == {-50, 150, 300}             \* centipawn evaluations
MateScores == {3, -1}                   \* mate in 3, mated in 1
Depths == {1, 2}
Moves == {"e2e4", "d2d4"}

InfoLines ==
    [depth : Depths, pv : Moves, score : CpScores, unit : {"cp"}]
      \cup [depth : Depths, pv : Moves, score : MateScores, unit : {"mate"}]

Line(d, m, s, u) == [depth |-> d, pv |-> m, score |-> s, unit |-> u]

\* spec.md section 8: candidates normalized to [300, 150, 50, -50]
ExampleInfo ==
    << Line(2, "e2e4", 300, "cp"), Line(2, "d2d4", 150, "cp"),
       Line(2, "g1f3", 50, "cp"), Line(2, "a2a3", -50, "cp") >>

\* a search stopped by movetime in the middle of an iteration: the line
\* already searched at the new depth is followed by one still at the old
InterruptedInfos == { info \in [1..2 -> InfoLines] : info[1].depth > info[2].depth }

\* two lines of one iteration that both end in mate: mate in 1 or 3 for the
\* side to move, mated in 1 or 3
MateLengths == {1, 3, -1, -3}
MateInfos ==
    { << Line(2, "e2e4", a, "mate"), Line(2, "d2d4", b, "mate") >> :
        a \in MateLengths, b \in MateLengths }

\* the engine reports one search iteration after the other: up to the
\* interrupted last iteration, depth never falls
Infos ==
    { info \in UNION { [1..n -> InfoLines] : n \in 1..MaxLines } :
        \A i \in 1..(Len(info) - 1) : info[i].depth <= info[i + 1].depth }
      \cup InterruptedInfos
      \cup MateInfos
      \cup {ExampleInfo}

EngineResult(info) == [bestmove |-> info[Len(info)].pv, info |-> info]

\* score-band configurations: config.js:7-9 and variations of them
BandConfig(b, l, f) == [mateBoost |-> b, maxScoreLoss |-> l, scoreFloor |-> f]
BandConfigs ==
    { BandConfig(10000000, l, f) : l \in {0, 200}, f \in {-700, 200} }
      \cup { BandConfig(100, 200, -700) }

(***************************************************************************)
(* pickGaslightMove (stockfishServer.js:84-136)                            *)
(*                                                                         *)
(* A key of numScoreMoveDict is the number  w + f / TieScale  with         *)
(* 0 <= f < TieScale, kept as the pair [w, f]; the pairs are ordered as    *)
(* the numbers are.                                                        *)
(***************************************************************************)
TieScale == 10000

Key(w, f) == [w |-> w, f |-> f]
KeyLess(a, b) == a.w < b.w \/ (a.w = b.w /\ a.f < b.f)
KeyMax(a, b) == IF KeyLess(a, b) THEN b ELSE a

EmptyDict == [k \in {} |-> NoValue]
Put(d, k, v) == [x \in (DOMAIN d) \cup {k} |-> IF x = k THEN v ELSE d[x]]

\* faulty variant of Normalize: the unit is not looked at
NormalizeUnitBlind(score, unit, c) == score

\* faulty variant of Normalize: the sign of a mate score is not looked at
NormalizeSignBlind(score, unit, c) ==
    IF unit = "mate" THEN c.mateBoost - score ELSE score

\* faulty variant of Normalize: the number of moves to mate is added to the
\* boost, not subtracted from it
NormalizeAddingMoves(score, unit, c) ==
    IF unit = "mate"
    THEN IF score > 0 THEN c.mateBoost + score ELSE (0 - c.mateBoost) + score
    ELSE score

\* lines 99-106: numScore before the tie-break offset
Normalize(score, unit, c) ==
    IF unit = "mate"
    THEN IF score > 0 THEN c.mateBoost - score ELSE (0 - c.mateBoost) - score
    ELSE score

\* faulty variant of NumScore: no tie-break offset is added
NumScoreNoOffset(info, j, c) == Key(Normalize(info[j].score, info[j].unit, c), 0)

\* line 107: numScore + (result.info.length - i) / 10000, i = j - 1
NumScore(info, j, c) ==
    LET off == Len(info) - (j - 1)
    IN Key(Normalize(info[j].score, info[j].unit, c) + (off \div TieScale),
           off % TieScale)

\* lines 92-111: the loop from the last info line down to the first
RECURSIVE ScanInfo(_, _, _, _)
ScanInfo(info, c, j, dicts) ==
    IF j = 0 THEN dicts
    ELSE IF info[j].depth # info[Len(info)].depth
         THEN ScanInfo(info, c, j - 1, dicts)
         ELSE LET move == info[j].pv
                  score == info[j].score
                  scoreUnit == info[j].unit
                  numScore == NumScore(info, j, c)
              IN ScanInfo(info, c, j - 1,
                    [moveScoreDict |-> Put(dicts.moveScoreDict, move, score),
                     moveScoreUnitDict |-> Put(dicts.moveScoreUnitDict, move, scoreUnit),
                     numScoreMoveDict |-> Put(dicts.numScoreMoveDict, numScore, move)])

Dicts(info, c) ==
    ScanInfo(info, c, Len(info),
             [moveScoreDict |-> EmptyDict, moveScoreUnitDict |-> EmptyDict,
              numScoreMoveDict |-> EmptyDict])

\* faulty variant of SortAscending: comparator (a, b) => b - a
RECURSIVE SortDescending(_)
SortDescending(S) ==
    IF S = {} THEN <<>>
    ELSE LET m == CHOOSE x \in S : \A y \in S : ~KeyLess(x, y)
         IN <<m>> \o SortDescending(S \ {m})

\* lines 113-115: Object.keys(...).map(Number).sort((a, b) => a - b)
RECURSIVE SortAscending(_)
SortAscending(S) ==
    IF S = {} THEN <<>>
    ELSE LET m == CHOOSE x \in S : \A y \in S : ~KeyLess(y, x)
         IN <<m>> \o SortAscending(S \ {m})

\* faulty variant of FirstAbove: the comparison with minScore is reversed
RECURSIVE FirstBelow(_, _, _, _)
FirstBelow(sorted, i, minScore, dflt) ==
    IF i > Len(sorted) THEN dflt
    ELSE IF KeyLess(sorted[i], minScore) THEN sorted[i]
    ELSE FirstBelow(sorted, i + 1, minScore, dflt)

\* lines 121-126: the first element of the sorted array above minScore
RECURSIVE FirstAbove(_, _, _, _)
FirstAbove(sorted, i, minScore, dflt) ==
    IF i > Len(sorted) THEN dflt
    ELSE IF KeyLess(minScore, sorted[i]) THEN sorted[i]
    ELSE FirstAbove(sorted, i + 1, minScore, dflt)

\* lines 117-118
MinScore(bestScore, c) ==
    KeyMax(Key(bestScore.w - c.maxScoreLoss, bestScore.f), Key(c.scoreFloor, 0))

\* lines 86-127: the dictionaries and the value of selectedScore after the loop
Selection(res, c) ==
    LET d == Dicts(res.info, c)
        sortedScoresArray == SortAscending(DOMAIN d.numScoreMoveDict)
        bestScore == sortedScoresArray[Len(sortedScoresArray)]
    IN [dicts |-> d,
        selectedScore |->
            FirstAbove(sortedScoresArray, 1, MinScore(bestScore, c), bestScore)]

\* lines 127-135: what is returned for a selection
Returned(res, sel) ==
    LET selectedMove == sel.dicts.numScoreMoveDict[sel.selectedScore]
    IN [move |-> selectedMove,
        depth |-> res.info[Len(res.info)].depth,
        score |-> sel.dicts.moveScoreDict[selectedMove],
        scoreunit |-> sel.dicts.moveScoreUnitDict[selectedMove]]

\* lines 84-136
pickGaslightMove(res, c) == Returned(res, Selection(res, c))

(***************************************************************************)
(* getBestMove (stockfishServer.js:71-79)                                  *)
(***************************************************************************)
getBestMove(res) ==
    [move |-> res.bestmove,
     depth |-> res.info[Len(res.info)].depth,
     score |-> res.info[Len(res.info)].score,
     scoreunit |-> res.info[Len(res.info)].unit]

(***************************************************************************)
(* GameState (controlPanel.js:845-947, the revision lichessBot.js uses).   *)
(* evalBarAdded, moretimeSpamSent and mateBmDelayed only drive the display *)
(* and the moretime spam; they are not modelled.  An optional number is a  *)
(* sequence: <<>> is null / undefined, <<n>> is the number n.              *)
(***************************************************************************)
None == <<>>
Some(n) == <<n>>

\* reset(), lines 853-863
reset ==
    [moveCounter |-> 0,
     playerColorIsWhite |-> FALSE,
     badOpeningOngoing |-> TRUE,
     madeFirstMove |-> FALSE,
     smackModeEnabled |-> FALSE,
     initialGameTime |-> None]

\* lines 869-871
incrementMoveCounter(gs) == [gs EXCEPT !.moveCounter = @ + 1]

\* lines 877-879
setPlayerColor(gs, isWhite) == [gs EXCEPT !.playerColorIsWhite = isWhite]

\* lines 892-894
markFirstMoveMade(gs) == [gs EXCEPT !.madeFirstMove = TRUE]

\* lines 899-901
activateSmackMode(gs) == [gs EXCEPT !.smackModeEnabled = TRUE]

\* lines 907-911
setInitialGameTime(gs, time) ==
    IF gs.initialGameTime = None THEN [gs EXCEPT !.initialGameTime = time] ELSE gs

\* lines 926-930
isWhitesTurn(gs) == gs.moveCounter % 2 = 0

\* faulty variant of isBotsTurn: the parity test is dropped
isBotsTurnAlways(gs) == TRUE

\* lines 937-946
isBotsTurn(gs) == gs.playerColorIsWhite = isWhitesTurn(gs)

(***************************************************************************)
(* chessUtils.js                                                           *)
(***************************************************************************)
\* GetBongcloudOpeningMove, lines 11-25: the keys of moveDict
BongcloudMoves ==
    [k \in 0..9 |->
        CASE k = 0 -> "e2e4" [] k = 2 -> "e1e2" [] k = 4 -> "e2e3"
          [] k = 6 -> "e3e2" [] k = 8 -> "e2e1"
          [] k = 1 -> "e7e5" [] k = 3 -> "e8e7" [] k = 5 -> "e7e6"
          [] k = 7 -> "e6e7" [] k = 9 -> "e7e8"]

\* lines 12-14 and 15-17: the values of moveDictWhite and of moveDictBlack
WhiteKingWalk == {"e2e4", "e1e2", "e2e3", "e3e2", "e2e1"}
BlackKingWalk == {"e7e5", "e8e7", "e7e6", "e6e7", "e7e8"}

\* faulty variant of GetBongcloudOpeningMove: the entry after the one of
\* the counter is returned
GetBongcloudOpeningMoveOfNext(moveCounter) ==
    IF moveCounter + 1 \in DOMAIN BongcloudMoves THEN BongcloudMoves[moveCounter + 1]
    ELSE NoValue

GetBongcloudOpeningMove(moveCounter) ==
    IF moveCounter \in DOMAIN BongcloudMoves THEN BongcloudMoves[moveCounter] ELSE NoValue

(***************************************************************************)
(* Smack mode (lichessBot.js:189-202).  The operator gives the GameState   *)
(* after the call.  timeLeft is optional: undefined < minTime is false.    *)
(***************************************************************************)
JsLess(opt, n) == opt # None /\ opt[1] < n

\* faulty variant of updateSmackModeStatus: the minMoves test (lines 195-197) is dropped
updateSmackModeStatusNoMinMoves(gs, gameMoveCounter, timeLeft, score, minScore, minMoves, maxMoves, minTime, smackModeMaxScore) ==
    IF gameMoveCounter > maxMoves \/ JsLess(timeLeft, minTime) \/ score > smackModeMaxScore
    THEN activateSmackMode(gs)
    ELSE IF score > minScore THEN gs
    ELSE activateSmackMode(gs)

updateSmackModeStatus(gs, gameMoveCounter, timeLeft, score, minScore, minMoves, maxMoves, minTime, smackModeMaxScore) ==
    IF gameMoveCounter > maxMoves \/ JsLess(timeLeft, minTime) \/ score > smackModeMaxScore
    THEN activateSmackMode(gs)
    ELSE IF gameMoveCounter < minMoves THEN gs
    ELSE IF score > minScore THEN gs
    ELSE activateSmackMode(gs)

NoSmackArgs ==
    [before |-> FALSE, gameMoveCounter |-> 0, timeLeft |-> <<>>, score |-> 0,
     minScore |-> 0, minMoves |-> 0, maxMoves |-> 0, minTime |-> 0,
     smackModeMaxScore |-> 0]

(***************************************************************************)
(* The configuration the session runs under (config.json).  The smack      *)
(* thresholds are scaled to the model's move bound.                        *)
(***************************************************************************)
SessionConfig ==
    [mateBoost |-> 10000000, maxScoreLoss |-> 200, scoreFloor |-> -700,
     smackModeMinScore |-> -900, smackModeMinMoves |-> 1, smackModeMaxMoves |-> 3,
     smackModeMinTime |-> 11, smackModeMaxScore |-> 500,
     defaultWhiteOpeningMove |-> "e2e4"]

(***************************************************************************)
(* What one handled message did: the engine endpoint it queried, the       *)
(* moveInfo that came back, whether updateSmackModeStatus ran, the move    *)
(* message it sent, whether the handler ended by a TypeError, whether the   *)
(* page was sent to the lobby, the branch of processMovetimeSettings that  *)
(* set the movetime.                                                       *)
(***************************************************************************)
NoEffect ==
    [query |-> "none", moveInfo |-> NoMoveInfo, evaluated |-> FALSE,
     sent |-> "none", threw |-> FALSE, navigated |-> FALSE, speed |-> "none"]

(***************************************************************************)
(* apiClient.js:12-37: the reply of the move server, null on any failure   *)
(***************************************************************************)
Failure == [ok |-> FALSE, result |-> EngineResult(<<Line(0, NoValue, 0, NoValue)>>)]
Reply(info) == [ok |-> TRUE, result |-> EngineResult(info)]

calculateBestMove(reply) ==
    IF reply.ok THEN getBestMove(reply.result) ELSE NoMoveInfo

\* faulty variant of calculateGaslightMove: a failed query is answered with
\* a move instead of null
calculateGaslightMoveDefaulting(reply, c) ==
    IF reply.ok THEN pickGaslightMove(reply.result, c)
    ELSE [NoMoveInfo EXCEPT !.move = "e2e4"]

calculateGaslightMove(reply, c) ==
    IF reply.ok THEN pickGaslightMove(reply.result, c) ELSE NoMoveInfo

(***************************************************************************)
(* calculateNextMove (lichessBot.js:375-400).  moveInfo.score of a null    *)
(* moveInfo throws before updateSmackModeStatus is called.                 *)
(***************************************************************************)
\* faulty variant of calculateNextMove: the evaluation runs afresh on every
\* gaslight move instead of being skipped once smack mode is on
calculateNextMoveReevaluating(gs, gaslightingEnabled, reply, timeLeft, c) ==
    IF gaslightingEnabled
    THEN LET mi == calculateGaslightMove(reply, c)
         IN IF mi = NoMoveInfo
            THEN [gs |-> gs, fx |-> [NoEffect EXCEPT !.query = "gaslight", !.threw = TRUE]]
            ELSE [gs |-> updateSmackModeStatus(
                            [gs EXCEPT !.smackModeEnabled = FALSE],
                            gs.moveCounter, timeLeft, mi.score,
                            c.smackModeMinScore, c.smackModeMinMoves,
                            c.smackModeMaxMoves, c.smackModeMinTime,
                            c.smackModeMaxScore),
                  fx |-> [NoEffect EXCEPT !.query = "gaslight", !.moveInfo = mi,
                                          !.evaluated = TRUE]]
    ELSE [gs |-> gs,
          fx |-> [NoEffect EXCEPT !.query = "best",
                                  !.moveInfo = calculateBestMove(reply)]]

\* faulty variant of calculateNextMove: when the evaluation escalates, the
\* best move is asked for at once and returned
calculateNextMoveSwitchingAtOnce(gs, gaslightingEnabled, reply, timeLeft, c) ==
    IF gaslightingEnabled /\ ~gs.smackModeEnabled
    THEN LET mi == calculateGaslightMove(reply, c)
         IN IF mi = NoMoveInfo
            THEN [gs |-> gs,
                  fx |-> [NoEffect EXCEPT !.query = "gaslight", !.threw = TRUE]]
            ELSE LET after == updateSmackModeStatus(
                                 gs, gs.moveCounter, timeLeft, mi.score,
                                 c.smackModeMinScore, c.smackModeMinMoves,
                                 c.smackModeMaxMoves, c.smackModeMinTime,
                                 c.smackModeMaxScore)
                 IN IF after.smackModeEnabled
                    THEN [gs |-> after,
                          fx |-> [NoEffect EXCEPT !.query = "best",
                                     !.moveInfo = calculateBestMove(reply),
                                     !.evaluated = TRUE]]
                    ELSE [gs |-> after,
                          fx |-> [NoEffect EXCEPT !.query = "gaslight", !.moveInfo = mi,
                                                  !.evaluated = TRUE]]
    ELSE [gs |-> gs,
          fx |-> [NoEffect EXCEPT !.query = "best",
                                  !.moveInfo = calculateBestMove(reply)]]

\* faulty variant of calculateNextMove: the gaslighting toggle is not
\* looked at, an unescalated session always asks for a gaslight move
calculateNextMoveIgnoringToggle(gs, gaslightingEnabled, reply, timeLeft, c) ==
    IF gs.smackModeEnabled
    THEN [gs |-> gs,
          fx |-> [NoEffect EXCEPT !.query = "best",
                                  !.moveInfo = calculateBestMove(reply)]]
    ELSE LET mi == calculateGaslightMove(reply, c)
         IN IF mi = NoMoveInfo
            THEN [gs |-> gs,
                  fx |-> [NoEffect EXCEPT !.query = "gaslight", !.threw = TRUE]]
            ELSE [gs |-> updateSmackModeStatus(
                            gs, gs.moveCounter, timeLeft, mi.score,
                            c.smackModeMinScore, c.smackModeMinMoves,
                            c.smackModeMaxMoves, c.smackModeMinTime,
                            c.smackModeMaxScore),
                  fx |-> [NoEffect EXCEPT !.query = "gaslight", !.moveInfo = mi,
                                          !.evaluated = TRUE]]

calculateNextMove(gs, gaslightingEnabled, reply, timeLeft, c) ==
    IF gaslightingEnabled
    THEN IF gs.smackModeEnabled
         THEN [gs |-> gs,
               fx |-> [NoEffect EXCEPT !.query = "best",
                                       !.moveInfo = calculateBestMove(reply)]]
         ELSE LET mi == calculateGaslightMove(reply, c)
              IN IF mi = NoMoveInfo
                 THEN [gs |-> gs,
                       fx |-> [NoEffect EXCEPT !.query = "gaslight", !.threw = TRUE]]
                 ELSE [gs |-> updateSmackModeStatus(
                                 gs, gs.moveCounter, timeLeft, mi.score,
                                 c.smackModeMinScore, c.smackModeMinMoves,
                                 c.smackModeMaxMoves, c.smackModeMinTime,
                                 c.smackModeMaxScore),
                       fx |-> [NoEffect EXCEPT !.query = "gaslight", !.moveInfo = mi,
                                               !.evaluated = TRUE]]
    ELSE [gs |-> gs,
          fx |-> [NoEffect EXCEPT !.query = "best",
                                  !.moveInfo = calculateBestMove(reply)]]

(***************************************************************************)
(* tryBadOpeningMove (lichessBot.js:343-364).  valid is the answer of      *)
(* isValidMove (chess.js) for the scripted move in the current position.   *)
(***************************************************************************)
\* faulty variant of tryBadOpeningMove: badOpeningOngoing is left set when
\* the scripted move is missing or rejected
tryBadOpeningMoveKeepsOpening(gs, valid, badOpeningEnabled, automoveEnabled) ==
    IF ~badOpeningEnabled \/ ~gs.badOpeningOngoing
    THEN [handled |-> FALSE, gs |-> gs, sent |-> "none"]
    ELSE IF GetBongcloudOpeningMove(gs.moveCounter) # NoValue /\ valid
         THEN [handled |-> TRUE, gs |-> gs,
               sent |-> IF automoveEnabled THEN "opening" ELSE "none"]
         ELSE [handled |-> FALSE, gs |-> gs, sent |-> "none"]

\* faulty variant of tryBadOpeningMove: the scripted move is sent whether
\* or not automove is enabled
tryBadOpeningMoveAlwaysSends(gs, valid, badOpeningEnabled, automoveEnabled) ==
    IF ~badOpeningEnabled \/ ~gs.badOpeningOngoing
    THEN [handled |-> FALSE, gs |-> gs, sent |-> "none"]
    ELSE IF GetBongcloudOpeningMove(gs.moveCounter) # NoValue /\ valid
         THEN [handled |-> TRUE, gs |-> gs, sent |-> "opening"]
         ELSE [handled |-> FALSE, gs |-> [gs EXCEPT !.badOpeningOngoing = FALSE],
               sent |-> "none"]

tryBadOpeningMove(gs, valid, badOpeningEnabled, automoveEnabled) ==
    IF ~badOpeningEnabled \/ ~gs.badOpeningOngoing
    THEN [handled |-> FALSE, gs |-> gs, sent |-> "none"]
    ELSE IF GetBongcloudOpeningMove(gs.moveCounter) # NoValue /\ valid
         THEN [handled |-> TRUE, gs |-> gs,
               sent |-> IF automoveEnabled THEN "opening" ELSE "none"]
         ELSE [handled |-> FALSE, gs |-> [gs EXCEPT !.badOpeningOngoing = FALSE],
               sent |-> "none"]

(***************************************************************************)
(* processMoveMessage (lichessBot.js:528-697)                              *)
(* The movetime slider (processMovetimeSettings), the moretime spam, the   *)
(* arrows and the evaluation bar act on the page only.                     *)
(***************************************************************************)
Truthy(opt) == opt # None /\ opt[1] # 0

\* faulty variant of captureInitialGameTime: every clock reading is stored
captureEveryGameTime(gs, timeLeftSeconds) ==
    IF Truthy(timeLeftSeconds) THEN [gs EXCEPT !.initialGameTime = timeLeftSeconds] ELSE gs

\* lines 579-583: the first clock reading of the game is kept
captureInitialGameTime(gs, timeLeftSeconds) ==
    IF gs.initialGameTime = None /\ Truthy(timeLeftSeconds)
    THEN setInitialGameTime(gs, timeLeftSeconds)
    ELSE gs

\* processMovetimeSettings, lines 317-332: the branch that sets the movetime
movetimeBranch(gs, adjustSpeedEnabled, gaslightingEnabled) ==
    IF ~adjustSpeedEnabled THEN "none"
    ELSE IF gaslightingEnabled /\ gs.smackModeEnabled THEN "smack"
    ELSE "table"

processMoveMessage(gs, msg, env, c) ==
    IF ~msg.uci THEN [gs |-> gs, fx |-> NoEffect]
    ELSE
    LET gs1 == incrementMoveCounter(gs)
    IN  IF ~isBotsTurn(gs1) THEN [gs |-> gs1, fx |-> NoEffect]
        ELSE
        LET timeLeftSeconds == env.clock
            gs2 == captureInitialGameTime(gs1, timeLeftSeconds)
            speed == movetimeBranch(gs2, env.adjustSpeed, env.gaslighting)
            bad == tryBadOpeningMove(gs2, env.valid, env.badOpening, env.automove)
        IN  IF bad.handled
            THEN [gs |-> bad.gs,
                  fx |-> [NoEffect EXCEPT !.sent = bad.sent, !.speed = speed]]
            ELSE
            LET next == calculateNextMove(bad.gs, env.gaslighting, env.reply,
                                          timeLeftSeconds, c)
            IN  IF next.fx.threw \/ next.fx.moveInfo = NoMoveInfo
                THEN [gs |-> next.gs,
                      fx |-> [next.fx EXCEPT !.threw = TRUE, !.speed = speed]]
                ELSE [gs |-> next.gs,
                      fx |-> [next.fx EXCEPT
                                 !.sent = IF env.automove THEN "engine" ELSE "none",
                                 !.speed = speed]]

(***************************************************************************)
(* The incoming-message handler (lichessBot.js:716-762) and what it calls  *)
(***************************************************************************)
\* handleRematchDetection, lines 463-469
handleRematchDetection(rematch, msg) == IF msg.t = "reload" THEN TRUE ELSE rematch

\* detectPlayerColor, lines 476-490; colorCode is what getPlayerColor reads
detectPlayerColor(gs, msg, colorCode) ==
    IF msg.t \notin {"zero", "crowd"} THEN gs
    ELSE IF gs.moveCounter # 0 THEN gs
    ELSE IF colorCode # NoValue THEN setPlayerColor(gs, colorCode = "w")
    ELSE gs

\* handleFirstMoveAsWhite, lines 496-502: shouldMakeFirstMove
shouldMakeFirstMove(gs, isAutomoveEnabled) ==
    /\ gs.playerColorIsWhite
    /\ gs.moveCounter = 0
    /\ ~gs.madeFirstMove
    /\ isAutomoveEnabled

\* newGame, lines 769-787, up to the delay.  s is [gs, rematchAccepted, timers]
newGame(s, autoStartEnabled) ==
    IF autoStartEnabled = FALSE THEN s
    ELSE [gs |-> reset, rematchAccepted |-> FALSE, timers |-> s.timers + 1]

\* lines 716-762
handleWebSocketMessage(s, msg, env, c) ==
    LET s1 == [s EXCEPT !.rematchAccepted = handleRematchDetection(@, msg)]
    IN  IF msg.t = "gone" THEN [s |-> s1, fx |-> NoEffect]
        ELSE IF msg.t = "endData"
        THEN [s |-> newGame(s1, env.autoStart), fx |-> NoEffect]
        ELSE
        LET gs1 == detectPlayerColor(s1.gs, msg, env.pageColor)
        IN  IF shouldMakeFirstMove(gs1, env.automove)
            THEN [s |-> [s1 EXCEPT !.gs = markFirstMoveMade(gs1)],
                  fx |-> [NoEffect EXCEPT !.sent = "first"]]
            ELSE IF msg.t # "move"
            THEN [s |-> [s1 EXCEPT !.gs = gs1], fx |-> NoEffect]
            ELSE LET r == processMoveMessage(gs1, msg, env, c)
                 IN [s |-> [s1 EXCEPT !.gs = r.gs], fx |-> r.fx]

(***************************************************************************)
(* Movetime scheduling (lichessBot.js:85-113, 314-333)                     *)
(*                                                                         *)
(* config.timeThresholds is an object keyed by the percentage floor; it is *)
(* kept as a function from floors to [movetime, variance].  Clock readings *)
(* are seconds, optional as in GameState.                                  *)
(***************************************************************************)
Threshold(m, v) == [movetime |-> m, variance |-> v]

\* spec.md section 8: floors {61:1500, 50:3500, 40:4500, 30:2500, 5:300}
ExampleThresholds ==
    [f \in {61, 50, 40, 30, 5} |->
        CASE f = 61 -> Threshold(1500, 0)
          [] f = 50 -> Threshold(3500, 0)
          [] f = 40 -> Threshold(4500, 0)
          [] f = 30 -> Threshold(2500, MaxVariance)
          [] f = 5 -> Threshold(300, 0)]

LowThresholds == [f \in {29, 5} |-> IF f = 29 THEN Threshold(400, 0) ELSE Threshold(100, 0)]

NoThresholds == [f \in {} |-> Threshold(0, 0)]

\* line 92, (timeLeft / initialTime) * 100 in IEEE-754 double arithmetic:
\* the clock readings of the model for which the product comes out below
\* the exact quotient ((29 / 100) * 100 is 28.999999999999996)
PercentRoundsDown == { <<29, 100>> }

\* faulty variant of PercentAtLeast: a missing clock reading counts as a
\* full clock
PercentAtLeastMissingIsFull(timeLeft, initialTime, threshold) ==
    \/ timeLeft = None
    \/ IF <<timeLeft[1], initialTime[1]>> \in PercentRoundsDown
       THEN 100 * timeLeft[1] > threshold * initialTime[1]
       ELSE 100 * timeLeft[1] >= threshold * initialTime[1]

\* line 101: percentRemaining >= threshold; NaN compares false
PercentAtLeast(timeLeft, initialTime, threshold) ==
    /\ timeLeft # None
    /\ IF <<timeLeft[1], initialTime[1]>> \in PercentRoundsDown
       THEN 100 * timeLeft[1] > threshold * initialTime[1]
       ELSE 100 * timeLeft[1] >= threshold * initialTime[1]

\* lines 96-98: the floors, highest first
RECURSIVE SortFloorsDescending(_)
SortFloorsDescending(S) ==
    IF S = {} THEN <<>>
    ELSE LET m == CHOOSE x \in S : \A y \in S : x >= y
         IN <<m>> \o SortFloorsDescending(S \ {m})

\* lines 100-107: the first floor of the sorted array that percentRemaining reaches
RECURSIVE FirstReached(_, _, _, _)
FirstReached(sortedThresholds, i, timeLeft, initialTime) ==
    IF i > Len(sortedThresholds) THEN None
    ELSE IF PercentAtLeast(timeLeft, initialTime, sortedThresholds[i])
         THEN Some(sortedThresholds[i])
         ELSE FirstReached(sortedThresholds, i + 1, timeLeft, initialTime)

\* lines 86-107: movetimeValue and variance after the loop, and the floor matched
DynamicBase(timeLeft, initialTime, c) ==
    IF initialTime = None \/ initialTime[1] = 0
    THEN [early |-> TRUE, matched |-> None, movetimeValue |-> c.defaultMovetime,
          variance |-> 0]
    ELSE LET hit == FirstReached(SortFloorsDescending(DOMAIN c.timeThresholds), 1,
                                 timeLeft, initialTime)
         IN IF hit = None
            THEN [early |-> FALSE, matched |-> None,
                  movetimeValue |-> c.defaultMovetime, variance |-> 0]
            ELSE [early |-> FALSE, matched |-> hit,
                  movetimeValue |-> c.timeThresholds[hit[1]].movetime,
                  variance |-> c.timeThresholds[hit[1]].variance]

Max(a, b) == IF a >= b THEN a ELSE b

\* faulty variant of randomVariance: the variance is not subtracted
randomVarianceOneSided(draw, variance) == draw

\* line 109; draw is Math.floor(Math.random() * (variance * 2 + 1))
randomVariance(draw, variance) == draw - variance

\* faulty variant of getDynamicMovetime: Math.max is left out
getDynamicMovetimeUnclamped(base, c, draw) ==
    IF base.early THEN c.defaultMovetime
    ELSE base.movetimeValue + randomVariance(draw, base.variance)

\* lines 85-113
getDynamicMovetime(base, c, draw) ==
    IF base.early THEN c.defaultMovetime
    ELSE Max(c.minimumMovetime, base.movetimeValue + randomVariance(draw, base.variance))

\* what one call did: whether setMovetime was called and with what, whether
\* the critical-time branch or getDynamicMovetime gave the value, and in
\* the latter case the floor matched with its movetime and variance
NoTimeOut ==
    [set |-> FALSE, movetime |-> 0, critical |-> FALSE, dynamic |-> FALSE,
     matched |-> None, movetimeValue |-> 0, variance |-> 0]

\* lines 314-333: the variance of the branch taken
SettingsBase(a) ==
    IF a.gaslightingEnabled /\ a.smackModeEnabled
    THEN [early |-> FALSE, matched |-> None, movetimeValue |-> a.config.smackModeMovetime,
          variance |-> a.config.smackModeVariance]
    ELSE DynamicBase(a.timeLeft, a.initialGameTime, a.config)

\* lines 314-333: what setMovetime is called with, if it is called
processMovetimeSettings(a, base, draw) ==
    IF ~a.adjustSpeedEnabled THEN NoTimeOut
    ELSE IF a.gaslightingEnabled /\ a.smackModeEnabled
    THEN IF a.config.criticalTimeEnabled
              /\ JsLess(a.timeLeft, a.config.criticalTimeThreshold)
         THEN [NoTimeOut EXCEPT !.set = TRUE, !.critical = TRUE,
                                !.movetime = a.config.criticalTimeMovetime]
         ELSE [NoTimeOut EXCEPT !.set = TRUE,
                  !.movetime = Max(a.config.minimumMovetime,
                                   a.config.smackModeMovetime + (draw - base.variance))]
    ELSE [set |-> TRUE, movetime |-> getDynamicMovetime(base, a.config, draw),
          critical |-> FALSE, dynamic |-> TRUE, matched |-> base.matched,
          movetimeValue |-> base.movetimeValue, variance |-> base.variance]

NoTimeArgs ==
    [timeLeft |-> None, initialGameTime |-> None, adjustSpeedEnabled |-> FALSE,
     gaslightingEnabled |-> FALSE, smackModeEnabled |-> FALSE,
     config |-> [defaultMovetime |-> 0, minimumMovetime |-> 0,
                 timeThresholds |-> NoThresholds, criticalTimeEnabled |-> FALSE,
                 criticalTimeThreshold |-> 0, criticalTimeMovetime |-> 0,
                 smackModeMovetime |-> 0, smackModeVariance |-> 0]]

TimeIdle == [NoTimeOut EXCEPT !.movetime = -1]

\* controlPanel.js:565, 580: slider.value = '1.5',
\* window.movetime = Math.round(parseFloat(slider.value) * 1000) + 1
SliderMovetime == 1501

\* pageUtils.js:113-126, setMovetime: the new value of window.movetime
setMovetime(stored, movetime) ==
    IF stored + 1 = movetime THEN stored ELSE movetime + 1

\* lines 585-586 and 592: window.movetime after processMovetimeSettings
AfterSettings(stored, out) ==
    IF out.set THEN setMovetime(stored, out.movetime) ELSE stored

IdleTime ==
    /\ timeArgs = NoTimeArgs
    /\ timeOut = TimeIdle
    /\ windowMovetime = SliderMovetime

(***************************************************************************)
(* The move server: getMoves and the two endpoints                         *)
(***************************************************************************)
Fens == {"fenA", "fenB"}

NoSearch == [fen |-> "none", multiPV |-> 0]

\* a request slot no handler is running in
QueryIdle == [pc |-> "idle", fen |-> "none", lines |-> 0, searched |-> NoSearch]

\* the engine process after initializeEngines
EngineReady == [multiPV |-> 1, fen |-> "startpos", alive |-> TRUE]

\* getBestMove asks for one line; getGaslightMove for req.query.lines
QueryLines == {1, 3}

\* the awaits of getMoves a handler can be suspended at
InFlightPcs == {"setoption", "isready", "ucinewgame", "position", "go"}

InFlight(i) == queries[i].pc \in InFlightPcs

IdleEngine ==
    /\ queries = [i \in 1..MaxRequests |-> QueryIdle]
    /\ engine = EngineReady

\* a slot no handler invocation is running in; what an invocation keeps of
\* messageData is whether it is a move notification
HandlerIdle == [pc |-> "idle", move |-> FALSE]

NoPage == [playing |-> FALSE, white |-> FALSE, automove |-> FALSE]

NoneSeen == [firsts |-> 0, ended |-> FALSE, rematch |-> FALSE]

IdleStart ==
    /\ stGame = reset
    /\ stRematch = FALSE
    /\ stHandlers = [i \in 1..MaxPending |-> HandlerIdle]
    /\ stSent = "none"
    /\ stPage = NoPage
    /\ stSeen = NoneSeen

IdleReentry ==
    /\ IdleStart
    /\ reGame = reset
    /\ rePending = {}
    /\ reSent = "none"

IdleLater == IdleTime /\ IdleEngine /\ IdleReentry

(***************************************************************************)
(* SpecSelect                                                              *)
(***************************************************************************)
IdleSelect ==
    /\ result = EngineResult(ExampleInfo)
    /\ cfg = BandConfig(0, 0, 0)
    /\ moveInfo = NoMoveInfo
    /\ selectedScore = Key(0, 0)

IdleSmack ==
    /\ smackArgs = NoSmackArgs
    /\ smackAfter = "none"

\* of the page state a message is handled under: the bad-opening toggle,
\* the answer of isValidMove, whether the move server fails the query, the
\* automove toggle
Observed(env) ==
    [badOpening |-> env.badOpening, valid |-> env.valid, engineDown |-> ~env.reply.ok,
     automove |-> env.automove]

NoEnv == [badOpening |-> FALSE, valid |-> FALSE, engineDown |-> FALSE, automove |-> FALSE]

\* nothing yet: no engine-selected move dispatched, no query failed, no
\* colour read from the page; badOpeningOngoing before the last message
NoPast ==
    [engineMoved |-> FALSE, queryFailed |-> FALSE, colourSet |-> FALSE,
     ongoingBefore |-> TRUE]

\* the game so far after one more message, handled from session gs;
\* endData ends the game
Remember(p, gs, msg, env, effect) ==
    IF msg.t = "endData" THEN NoPast
    ELSE [engineMoved |-> p.engineMoved \/ effect.sent = "engine",
          queryFailed |-> p.queryFailed \/ (effect.query # "none" /\ ~env.reply.ok),
          colourSet |-> p.colourSet \/ ( /\ msg.t \in {"zero", "crowd"}
                                         /\ gs.moveCounter = 0
                                         /\ env.pageColor # NoValue ),
          ongoingBefore |-> gs.badOpeningOngoing]

NoPlay == [gaslighting |-> FALSE, clock |-> None, adjustSpeed |-> FALSE]

IdleSession ==
    /\ lastPlay = NoPlay
    /\ lastEnv = NoEnv
    /\ past = NoPast
    /\ gameState = reset
    /\ rematchAccepted = FALSE
    /\ queueTimers = 0
    /\ lastMsg = NoMsg
    /\ fx = NoEffect
    /\ fresh = TRUE

IdlePair ==
    /\ pairA = [gs |-> reset, v |-> 0, sent |-> "none"]
    /\ pairB = [gs |-> reset, v |-> 0, sent |-> "none"]

InitSelect ==
    /\ result \in { EngineResult(i) : i \in Infos }
    /\ cfg = BandConfig(0, 0, 0)
    /\ moveInfo = NoMoveInfo
    /\ selectedScore = Key(0, 0)
    /\ IdleSmack /\ IdleSession /\ IdlePair /\ IdleLater

\* GET /get-gaslight-move answered from one engine result
PickGaslight ==
    /\ moveInfo = NoMoveInfo
    /\ \E c \in BandConfigs :
          \E sel \in {Selection(result, c)} :
             /\ cfg' = c
             /\ moveInfo' = Returned(result, sel)
             /\ selectedScore' = sel.selectedScore
    /\ UNCHANGED <<result, smackVars, sessionVars, pairVars, laterVars>>

NextSelect == PickGaslight

SpecSelect == InitSelect /\ [][NextSelect]_vars


(***************************************************************************)
(* SpecSmack                                                               *)
(***************************************************************************)
SmackArgs ==
    [before : BOOLEAN, gameMoveCounter : 0..MaxMoves,
     timeLeft : {None, Some(5), Some(60)}, score : {-950, -900, 0, 500, 501},
     minScore : {-900, 0}, minMoves : {2, 4}, maxMoves : {1, 3},
     minTime : {11, 61}, smackModeMaxScore : {500, 0}]

InitSmack ==
    /\ smackArgs \in SmackArgs
    /\ smackAfter = "none"
    /\ IdleSelect /\ IdleSession /\ IdlePair /\ IdleLater

EvaluateSmack ==
    /\ smackAfter = "none"
    /\ LET a == smackArgs
           gs == updateSmackModeStatus(
                    [reset EXCEPT !.smackModeEnabled = a.before],
                    a.gameMoveCounter, a.timeLeft, a.score, a.minScore,
                    a.minMoves, a.maxMoves, a.minTime, a.smackModeMaxScore)
       IN smackAfter' = IF gs.smackModeEnabled THEN "on" ELSE "off"
    /\ UNCHANGED <<smackArgs, selectVars, sessionVars, pairVars, laterVars>>

NextSmack == EvaluateSmack

SpecSmack == InitSmack /\ [][NextSmack]_vars

(***************************************************************************)
(* Spec: messages arrive at the handler one at a time                      *)
(***************************************************************************)
SessionClocks == {None, Some(60)}

\* what the move server may answer to one query
SessionReplies ==
    {Failure} \cup
    { Reply(<<Line(1, "e2e4", l[1], l[2])>>) :
        l \in {<<50, "cp">>, <<-950, "cp">>, <<3, "mate">>, <<-1, "mate">>} }

DefaultEnv ==
    [pageColor |-> NoValue, automove |-> FALSE, badOpening |-> FALSE,
     gaslighting |-> FALSE, clock |-> None, valid |-> FALSE,
     reply |-> Failure, autoStart |-> TRUE, adjustSpeed |-> FALSE]

Init ==
    /\ IdleSession
    /\ IdleSelect /\ IdleSmack /\ IdlePair /\ IdleLater

Handle(msg, env) ==
    \E r \in {handleWebSocketMessage(
                [gs |-> gameState, rematchAccepted |-> rematchAccepted,
                 timers |-> queueTimers], msg, env, SessionConfig)} :
       /\ gameState' = r.s.gs
       /\ rematchAccepted' = r.s.rematchAccepted
       /\ queueTimers' = r.s.timers
       /\ lastMsg' = msg
       /\ fx' = r.fx
       /\ fresh' = (msg.t = "endData")
       /\ UNCHANGED <<selectVars, smackVars, pairVars, laterVars>>

Deliver(msg, env) ==
    /\ Handle(msg, env)
    /\ UNCHANGED <<lastEnv, past, lastPlay>>

\* a move notification that carries a move
OnMove ==
    /\ gameState.moveCounter < MaxMoves
    /\ \E automove \in BOOLEAN, badOpening \in BOOLEAN, gaslighting \in BOOLEAN,
          clock \in SessionClocks, valid \in BOOLEAN, reply \in SessionReplies :
          Deliver(Msg("move", TRUE),
                  [DefaultEnv EXCEPT !.automove = automove, !.badOpening = badOpening,
                                     !.gaslighting = gaslighting, !.clock = clock,
                                     !.valid = valid, !.reply = reply])

\* a move notification without a move: a clock update after moretime
OnClockUpdate ==
    \E automove \in BOOLEAN :
        Deliver(Msg("move", FALSE), [DefaultEnv EXCEPT !.automove = automove])

\* crowd, or the ping answer 0: the colour is read from the page
OnCrowd ==
    \E t \in {"crowd", "zero"}, pageColor \in {"w", "b", NoValue}, automove \in BOOLEAN :
        Deliver(Msg(t, FALSE),
                [DefaultEnv EXCEPT !.pageColor = pageColor, !.automove = automove])

\* any other notification: clockInc, message, ...
OnOther ==
    \E automove \in BOOLEAN :
        Deliver(Msg("other", FALSE), [DefaultEnv EXCEPT !.automove = automove])

\* reload / rematchTaken
OnReload ==
    \E automove \in BOOLEAN :
        Deliver(Msg("reload", FALSE), [DefaultEnv EXCEPT !.automove = automove])

OnGone == Deliver(Msg("gone", FALSE), DefaultEnv)

OnEndData ==
    /\ queueTimers < MaxTimers
    /\ \E autoStart \in BOOLEAN :
          Deliver(Msg("endData", FALSE), [DefaultEnv EXCEPT !.autoStart = autoStart])

\* newGame, lines 787-796: the delay is over
AutoQueue ==
    /\ queueTimers > 0
    /\ queueTimers' = queueTimers - 1
    /\ lastMsg' = Msg("timer", FALSE)
    /\ fx' = [NoEffect EXCEPT !.navigated = ~rematchAccepted]
    /\ fresh' = FALSE
    /\ UNCHANGED <<gameState, rematchAccepted, lastEnv, past, lastPlay, selectVars, smackVars, pairVars, laterVars>>

Next ==
    \/ OnMove
    \/ OnClockUpdate
    \/ OnCrowd
    \/ OnOther
    \/ OnReload
    \/ OnGone
    \/ OnEndData
    \/ AutoQueue

Spec == Init /\ [][Next]_vars

(***************************************************************************)
(* SpecOpening: the same handler and the same process, in one game that    *)
(* lasts past the last entry of the scripted opening table; what the       *)
(* messages were handled under and what has happened so far is recorded    *)
(***************************************************************************)
OpeningReplies == {Failure, Reply(<<Line(1, "e2e4", 50, "cp")>>)}

Observe(msg, env) ==
    /\ Handle(msg, env)
    /\ lastEnv' = Observed(env)
    /\ UNCHANGED lastPlay
    /\ past' = Remember(past, gameState, msg, env, fx')

\* a move notification that carries a move
OnOpeningMove ==
    /\ gameState.moveCounter < MaxOpening
    /\ \E automove \in BOOLEAN, badOpening \in BOOLEAN, gaslighting \in BOOLEAN,
          valid \in BOOLEAN, reply \in OpeningReplies :
          Observe(Msg("move", TRUE),
                  [DefaultEnv EXCEPT !.automove = automove, !.badOpening = badOpening,
                                     !.gaslighting = gaslighting,
                                     !.valid = valid, !.reply = reply])

\* crowd, or the ping answer 0: the colour is read from the page
OnOpeningCrowd ==
    \E t \in {"crowd", "zero"}, pageColor \in {"w", "b", NoValue}, automove \in BOOLEAN :
        Observe(Msg(t, FALSE),
                [DefaultEnv EXCEPT !.pageColor = pageColor, !.automove = automove])

NextOpening ==
    \/ OnOpeningCrowd
    \/ OnOpeningMove

SpecOpening == Init /\ [][NextOpening]_vars

(***************************************************************************)
(* SpecPlay: the same handler and the same process over several games;     *)
(* move events carry differing clock readings, and the gaslighting toggle  *)
(* and the reading of the last move event are recorded                     *)
(***************************************************************************)
PlayClocks == {None, Some(60), Some(30)}

\* a move notification that carries a move
OnPlayMove ==
    /\ gameState.moveCounter < MaxMoves
    /\ \E automove \in BOOLEAN, gaslighting \in BOOLEAN, clock \in PlayClocks,
          reply \in SessionReplies, adjustSpeed \in BOOLEAN :
          /\ Handle(Msg("move", TRUE),
                    [DefaultEnv EXCEPT !.automove = automove, !.gaslighting = gaslighting,
                                       !.clock = clock, !.reply = reply,
                                       !.adjustSpeed = adjustSpeed])
          /\ lastPlay' = [gaslighting |-> gaslighting, clock |-> clock,
                          adjustSpeed |-> adjustSpeed]
    /\ UNCHANGED <<lastEnv, past>>

\* crowd: the colour is read from the page
OnPlayCrowd ==
    /\ \E pageColor \in {"w", "b"} :
          Handle(Msg("crowd", FALSE), [DefaultEnv EXCEPT !.pageColor = pageColor])
    /\ lastPlay' = NoPlay
    /\ UNCHANGED <<lastEnv, past>>

\* endData: the game is over
OnPlayEndData ==
    /\ queueTimers < MaxTimers
    /\ \E autoStart \in BOOLEAN :
          Handle(Msg("endData", FALSE), [DefaultEnv EXCEPT !.autoStart = autoStart])
    /\ lastPlay' = NoPlay
    /\ UNCHANGED <<lastEnv, past>>

NextPlay ==
    \/ OnPlayMove
    \/ OnPlayCrowd
    \/ OnPlayEndData
    \/ AutoQueue

SpecPlay == Init /\ [][NextPlay]_vars

(***************************************************************************)
(* SpecPair: two bot processes watch the same game.  Both receive every    *)
(* colour-detection message and every move notification that carries a     *)
(* move, with the same page state, but each under a version number of its  *)
(* own; clock updates and other notifications reach one of them only.      *)
(* The handler never reads messageData.v (lichessBot.js:529, 758 log it).  *)
(***************************************************************************)
Versions == {1, 2}

PairEnv(automove, pageColor) ==
    [DefaultEnv EXCEPT !.automove = automove, !.pageColor = pageColor,
                       !.valid = TRUE, !.reply = Reply(<<Line(1, "e2e4", 50, "cp")>>)]

PairHandle(p, msg, env) ==
    handleWebSocketMessage([gs |-> p.gs, rematchAccepted |-> FALSE, timers |-> 0],
                           msg, env, SessionConfig)

PairAfter(r, v) == [gs |-> r.s.gs, v |-> v, sent |-> r.fx.sent]

InitPair ==
    /\ IdlePair
    /\ IdleSelect /\ IdleSmack /\ IdleSession /\ IdleLater

\* one event handled by the processes in `targets`, each under its own version
PairStep(msg, env, targets, vA, vB) ==
    /\ \E r \in {[p \in targets |->
                    PairHandle(IF p = "A" THEN pairA ELSE pairB, msg, env)]} :
          /\ pairA' = IF "A" \in targets THEN PairAfter(r["A"], vA) ELSE pairA
          /\ pairB' = IF "B" \in targets THEN PairAfter(r["B"], vB) ELSE pairB
    /\ UNCHANGED <<selectVars, smackVars, sessionVars, laterVars>>

PairCrowd ==
    \E pageColor \in {"w", "b"}, automove \in BOOLEAN, vA \in Versions, vB \in Versions :
        PairStep(Msg("crowd", FALSE), PairEnv(automove, pageColor), {"A", "B"}, vA, vB)

PairMove ==
    /\ pairA.gs.moveCounter < MaxMoves
    /\ pairB.gs.moveCounter < MaxMoves
    /\ \E automove \in BOOLEAN, vA \in Versions, vB \in Versions :
          PairStep(Msg("move", TRUE), PairEnv(automove, NoValue), {"A", "B"}, vA, vB)

PairNoiseA ==
    /\ \E m \in {Msg("move", FALSE), Msg("other", FALSE)}, automove \in BOOLEAN,
          v \in Versions :
          PairStep(m, PairEnv(automove, NoValue), {"A"}, v, v)

PairNoiseB ==
    /\ \E m \in {Msg("move", FALSE), Msg("other", FALSE)}, automove \in BOOLEAN,
          v \in Versions :
          PairStep(m, PairEnv(automove, NoValue), {"B"}, v, v)

NextPair == PairCrowd \/ PairMove \/ PairNoiseA \/ PairNoiseB

SpecPair == InitPair /\ [][NextPair]_vars

(***************************************************************************)
(* SpecTime: processMovetimeSettings applied to bounded inputs             *)
(***************************************************************************)
TimeConfigs ==
    [defaultMovetime : {100, 1000}, minimumMovetime : {200},
     timeThresholds : {ExampleThresholds, LowThresholds, NoThresholds},
     criticalTimeEnabled : BOOLEAN, criticalTimeThreshold : {10},
     criticalTimeMovetime : {50}, smackModeMovetime : {300},
     smackModeVariance : {0, MaxVariance}]

TimeArgs ==
    [timeLeft : {None, Some(3), Some(29), Some(35), Some(70)},
     initialGameTime : {None, Some(100)},
     adjustSpeedEnabled : BOOLEAN, gaslightingEnabled : BOOLEAN,
     smackModeEnabled : BOOLEAN, config : TimeConfigs]

InitTime ==
    /\ timeArgs \in TimeArgs
    /\ timeOut = TimeIdle
    /\ windowMovetime = SliderMovetime
    /\ IdleSelect /\ IdleSmack /\ IdleSession /\ IdlePair /\ IdleEngine /\ IdleReentry

SetMovetime ==
    /\ timeOut = TimeIdle
    /\ \E base \in {SettingsBase(timeArgs)} :
          \E draw \in 0..(2 * base.variance) :
             /\ timeOut' = processMovetimeSettings(timeArgs, base, draw)
             /\ windowMovetime' = AfterSettings(windowMovetime, timeOut')
    /\ UNCHANGED <<timeArgs, selectVars, smackVars, sessionVars, pairVars, engineVars, reentryVars>>

NextTime == SetMovetime

SpecTime == InitTime /\ [][NextTime]_vars

(***************************************************************************)
(* SpecSpeed: processMoveMessage, lines 585-593, for the successive        *)
(* decisions of one game: processMovetimeSettings, then                    *)
(* fetchPageVariable(page, "movetime"), whose value goes to the move       *)
(* server.  The toggles and the configuration stay as they are; the clock  *)
(* reading and the jitter differ from decision to decision.                *)
(***************************************************************************)
SpeedConfigs ==
    [defaultMovetime : {1000}, minimumMovetime : {200},
     timeThresholds : {ExampleThresholds},
     criticalTimeEnabled : BOOLEAN, criticalTimeThreshold : {10},
     criticalTimeMovetime : {50}, smackModeMovetime : {300},
     smackModeVariance : {MaxVariance}]

SpeedClocks == {Some(3), Some(35), Some(70)}

SpeedArgs ==
    [timeLeft : SpeedClocks, initialGameTime : {None, Some(100)},
     adjustSpeedEnabled : BOOLEAN, gaslightingEnabled : BOOLEAN,
     smackModeEnabled : BOOLEAN, config : SpeedConfigs]

InitSpeed ==
    /\ timeArgs \in SpeedArgs
    /\ timeOut = TimeIdle
    /\ windowMovetime = SliderMovetime
    /\ IdleSelect /\ IdleSmack /\ IdleSession /\ IdlePair /\ IdleEngine /\ IdleReentry

\* one decision: the movetime is adjusted for the clock reading of the event
AdjustSpeed ==
    /\ \E timeLeft \in SpeedClocks :
          \E a \in {[timeArgs EXCEPT !.timeLeft = timeLeft]} :
             \E base \in {SettingsBase(a)} :
                \E draw \in 0..(2 * base.variance) :
                   /\ timeArgs' = a
                   /\ timeOut' = processMovetimeSettings(a, base, draw)
                   /\ windowMovetime' = AfterSettings(windowMovetime, timeOut')
    /\ UNCHANGED <<selectVars, smackVars, sessionVars, pairVars, engineVars, reentryVars>>

NextSpeed == AdjustSpeed

SpecSpeed == InitSpeed /\ [][NextSpeed]_vars

(***************************************************************************)
(* SpecEngine: the endpoints are async handlers; each await of getMoves    *)
(* lets the handler of another request run                                 *)
(***************************************************************************)
InitEngine ==
    /\ IdleEngine
    /\ IdleSelect /\ IdleSmack /\ IdleSession /\ IdlePair /\ IdleTime /\ IdleReentry

EngineFrame == UNCHANGED <<selectVars, smackVars, sessionVars, pairVars, timeVars, reentryVars>>

\* a GET arrives: the handler runs to the first await, engine.setoption
Request(i) ==
    /\ queries[i].pc = "idle"
    /\ \E fen \in Fens, lines \in QueryLines :
          /\ queries' = [queries EXCEPT ![i] = [pc |-> "setoption", fen |-> fen,
                                                 lines |-> lines, searched |-> NoSearch]]
          /\ engine' = [engine EXCEPT !.multiPV = lines]
    /\ EngineFrame

\* setoption resolved: await engine.isready()
IsReady(i) ==
    /\ queries[i].pc = "setoption"
    /\ queries' = [queries EXCEPT ![i].pc = "isready"]
    /\ UNCHANGED engine
    /\ EngineFrame

\* isready resolved: await engine.ucinewgame()
UciNewGame(i) ==
    /\ queries[i].pc = "isready"
    /\ queries' = [queries EXCEPT ![i].pc = "ucinewgame"]
    /\ UNCHANGED engine
    /\ EngineFrame

\* ucinewgame resolved: await engine.position(fen)
Position(i) ==
    /\ queries[i].pc = "ucinewgame"
    /\ queries' = [queries EXCEPT ![i].pc = "position"]
    /\ engine' = [engine EXCEPT !.fen = queries[i].fen]
    /\ EngineFrame

\* position resolved: engine.go searches what the engine is set to now
Go(i) ==
    /\ queries[i].pc = "position"
    /\ queries' = [queries EXCEPT ![i].pc = "go",
                                   ![i].searched = [fen |-> engine.fen,
                                                    multiPV |-> engine.multiPV]]
    /\ UNCHANGED engine
    /\ EngineFrame

\* the search returns and the handler answers with res.json; nothing else
\* resumes the handler: neither getMoves nor the endpoint sets a timer
Respond(i) ==
    /\ queries[i].pc = "go"
    /\ engine.alive
    /\ queries' = [queries EXCEPT ![i] = QueryIdle]
    /\ UNCHANGED engine
    /\ EngineFrame

NextEngine ==
    \E i \in 1..MaxRequests :
        \/ Request(i)
        \/ IsReady(i)
        \/ UciNewGame(i)
        \/ Position(i)
        \/ Go(i)
        \/ Respond(i)

SpecEngine == InitEngine /\ [][NextEngine]_vars

(***************************************************************************)
(* SpecEngineLive: the engine is a child process; it may stop answering.   *)
(* The event loop resumes every handler whose awaited promise has          *)
(* resolved, hence weak fairness of each step of getMoves; requests and    *)
(* the engine's failure are up to the environment.                         *)
(***************************************************************************)
\* the engine process stops reporting: no bestmove arrives from now on
Hang ==
    /\ engine.alive
    /\ engine' = [engine EXCEPT !.alive = FALSE]
    /\ UNCHANGED queries
    /\ EngineFrame

NextEngineLive ==
    \/ NextEngine
    \/ Hang

EventLoop ==
    \A i \in 1..MaxRequests :
        /\ WF_vars(IsReady(i))
        /\ WF_vars(UciNewGame(i))
        /\ WF_vars(Position(i))
        /\ WF_vars(Go(i))
        /\ WF_vars(Respond(i))

SpecEngineLive == InitEngine /\ [][NextEngineLive]_vars /\ EventLoop

(***************************************************************************)
(* SpecReentry: window.handleWebSocketMessage(event.data) is called for    *)
(* every incoming message and not awaited; the handler is an async         *)
(* function, so a handler waiting at `await calculateBestMove /            *)
(* calculateGaslightMove` is suspended while later messages are handled.   *)
(* The awaits on the page (fetchPageVariable, sendMove) are taken          *)
(* together with the code around them.                                     *)
(***************************************************************************)
InitReentry ==
    /\ IdleReentry
    /\ IdleSelect /\ IdleSmack /\ IdleSession /\ IdlePair /\ IdleTime /\ IdleEngine

ReentryFrame == UNCHANGED <<selectVars, smackVars, sessionVars, pairVars, timeVars, engineVars, startVars>>

\* the locals of a handler suspended in calculateNextMove
Suspended(kind, automove, timeLeft, forMove) ==
    [kind |-> kind, automove |-> automove, timeLeft |-> timeLeft, forMove |-> forMove]

\* processMoveMessage from its start to the query of calculateNextMove
beginMove(gs, env) ==
    LET gs1 == incrementMoveCounter(gs)
    IN  IF ~isBotsTurn(gs1) THEN [gs |-> gs1, sent |-> "none", waits |-> {}]
        ELSE
        LET gs2 == IF gs1.initialGameTime = None /\ Truthy(env.clock)
                   THEN setInitialGameTime(gs1, env.clock)
                   ELSE gs1
            bad == tryBadOpeningMove(gs2, env.valid, env.badOpening, env.automove)
        IN  IF bad.handled THEN [gs |-> bad.gs, sent |-> bad.sent, waits |-> {}]
            ELSE [gs |-> bad.gs, sent |-> "none",
                  waits |-> {Suspended(IF env.gaslighting /\ ~bad.gs.smackModeEnabled
                                       THEN "gaslight" ELSE "best",
                                       env.automove, env.clock, bad.gs.moveCounter)}]

\* calculateNextMove and processMoveMessage from the answer of the move
\* server on; gameState is read as it is then
resumeMove(gs, h, reply, c) ==
    LET mi == IF h.kind = "gaslight" THEN calculateGaslightMove(reply, c)
              ELSE calculateBestMove(reply)
    IN  IF mi = NoMoveInfo THEN [gs |-> gs, sent |-> "none"]
        ELSE [gs |-> IF h.kind = "gaslight"
                     THEN updateSmackModeStatus(
                              gs, gs.moveCounter, h.timeLeft, mi.score,
                              c.smackModeMinScore, c.smackModeMinMoves,
                              c.smackModeMaxMoves, c.smackModeMinTime,
                              c.smackModeMaxScore)
                     ELSE gs,
              sent |-> IF h.automove THEN "engine" ELSE "none"]

\* a move notification that carries a move is handled up to its query
ReMove ==
    /\ reGame.moveCounter < MaxMoves
    /\ Cardinality(rePending) < MaxPending
    /\ \E automove \in BOOLEAN, badOpening \in BOOLEAN, gaslighting \in BOOLEAN,
          clock \in SessionClocks, valid \in BOOLEAN :
          \E b \in {beginMove(reGame, [automove |-> automove, badOpening |-> badOpening,
                                       gaslighting |-> gaslighting, clock |-> clock,
                                       valid |-> valid])} :
             /\ ~shouldMakeFirstMove(reGame, automove)
             /\ reGame' = b.gs
             /\ rePending' = rePending \cup b.waits
             /\ reSent' = b.sent
    /\ ReentryFrame

\* crowd, or the ping answer 0
ReCrowd ==
    /\ \E t \in {"crowd", "zero"}, pageColor \in {"w", "b"}, automove \in BOOLEAN :
          \E gs1 \in {detectPlayerColor(reGame, Msg(t, FALSE), pageColor)} :
             IF shouldMakeFirstMove(gs1, automove)
             THEN reGame' = markFirstMoveMade(gs1) /\ reSent' = "first"
             ELSE reGame' = gs1 /\ reSent' = "none"
    /\ UNCHANGED rePending
    /\ ReentryFrame

\* endData with auto-start on: newGame resets the session
ReEndData ==
    /\ reGame # reset
    /\ reGame' = reset
    /\ reSent' = "none"
    /\ UNCHANGED rePending
    /\ ReentryFrame

\* the move server answers a suspended handler, which runs to its end
ReReply ==
    /\ \E h \in rePending, reply \in SessionReplies :
          \E r \in {resumeMove(reGame, h, reply, SessionConfig)} :
             /\ reGame' = r.gs
             /\ reSent' = r.sent
             /\ rePending' = rePending \ {h}
    /\ ReentryFrame

NextReentry ==
    \/ ReMove
    \/ ReCrowd
    \/ ReEndData
    \/ ReReply

SpecReentry == InitReentry /\ [][NextReentry]_vars

(***************************************************************************)
(* SpecStart: the handler of lines 716-762 with handleGameEnd and newGame, *)
(* one step per await on the page or on a timer.  An await of an async     *)
(* function that does not leave the process (getBadOpeningMove) is taken   *)
(* together with the code after it; processMoveMessage is taken as one     *)
(* step.  The page tells the colour while a game is running; between       *)
(* games its `.message` element may hold either colour or be missing.      *)
(***************************************************************************)
InitStart ==
    /\ IdleStart
    /\ reGame = reset /\ rePending = {} /\ reSent = "none"
    /\ IdleSelect /\ IdleSmack /\ IdleSession /\ IdlePair /\ IdleTime /\ IdleEngine

StartFrame ==
    UNCHANGED <<selectVars, smackVars, sessionVars, pairVars, timeVars, engineVars,
                reGame, rePending, reSent>>

FreeSlots == { i \in 1..MaxPending : stHandlers[i].pc = "idle" }

\* lines 716-744: a message arrives and its handler runs to its first await
Arrive(msg) ==
    /\ FreeSlots # {}
    /\ LET i == CHOOSE k \in FreeSlots : \A j \in FreeSlots : k <= j
           pc == IF msg.t = "endData" THEN "handleGameEnd"
                 ELSE IF msg.t \in {"zero", "crowd"} /\ stGame.moveCounter = 0
                      THEN "getPlayerColor"
                      ELSE "automoveEnabled"
       IN stHandlers' = [stHandlers EXCEPT ![i] = [pc |-> pc, move |-> msg.t = "move"]]
    /\ stRematch' = handleRematchDetection(stRematch, msg)
    /\ stSent' = "none"
    /\ UNCHANGED stGame
    /\ StartFrame

\* crowd, or the answer 0 to a ping of the page
OnStartCrowd ==
    /\ \E t \in {"crowd", "zero"} : Arrive(Msg(t, FALSE))
    /\ UNCHANGED <<stPage, stSeen>>

\* a move notification with a move; with automove on, the moves of a game
\* the bot plays as White follow its first move
OnStartMove ==
    /\ stPage.playing
    /\ (stPage.white /\ stPage.automove) => stSeen.firsts > 0
    /\ stGame.moveCounter < MaxMoves
    /\ Arrive(Msg("move", TRUE))
    /\ UNCHANGED <<stPage, stSeen>>

\* reload / rematchTaken: the opponent accepted the rematch
OnStartReload ==
    /\ ~stPage.playing
    /\ Arrive(Msg("reload", FALSE))
    /\ stSeen' = [stSeen EXCEPT !.rematch = stSeen.ended]
    /\ UNCHANGED stPage

\* endData: the game on the page is over
OnStartEndData ==
    /\ stPage.playing
    /\ (stPage.white /\ stPage.automove) => stSeen.firsts > 0
    /\ Arrive(Msg("endData", FALSE))
    /\ stPage' = [stPage EXCEPT !.playing = FALSE]
    /\ stSeen' = [stSeen EXCEPT !.ended = TRUE, !.rematch = FALSE]

\* detectPlayerColor, lines 486-490: getPlayerColor has answered
ColorRead(i) ==
    /\ stHandlers[i].pc = "getPlayerColor"
    /\ \E colorCode \in (IF stPage.playing
                          THEN {IF stPage.white THEN "w" ELSE "b"}
                          ELSE {"w", "b", NoValue}) :
          stGame' = IF colorCode # NoValue
                    THEN setPlayerColor(stGame, colorCode = "w") ELSE stGame
    /\ stHandlers' = [stHandlers EXCEPT ![i].pc = "automoveEnabled"]
    /\ stSent' = "none"
    /\ UNCHANGED <<stRematch, stPage, stSeen>>
    /\ StartFrame

\* lines 745-761: fetchPageVariable(page, "automoveEnabled") has answered
AutomoveRead(i) ==
    /\ stHandlers[i].pc = "automoveEnabled"
    /\ IF shouldMakeFirstMove(stGame, stPage.automove)
       THEN /\ stSent' = "first"
            /\ stSeen' = [stSeen EXCEPT !.firsts = @ + 1]
            /\ stHandlers' = [stHandlers EXCEPT ![i].pc = "sendMove"]
            /\ UNCHANGED stGame
       ELSE /\ \E reply \in OpeningReplies :
                  \E r \in {IF stHandlers[i].move
                             THEN processMoveMessage(
                                     stGame, Msg("move", TRUE),
                                     [DefaultEnv EXCEPT !.automove = stPage.automove,
                                                        !.reply = reply],
                                     SessionConfig)
                             ELSE [gs |-> stGame, fx |-> NoEffect]} :
                     /\ stGame' = r.gs
                     /\ stSent' = r.fx.sent
            /\ stHandlers' = [stHandlers EXCEPT ![i] = HandlerIdle]
            /\ UNCHANGED stSeen
    /\ UNCHANGED <<stRematch, stPage>>
    /\ StartFrame

\* handleFirstMoveAsWhite, lines 507-510: sendMove has returned
FirstSent(i) ==
    /\ stHandlers[i].pc = "sendMove"
    /\ stGame' = markFirstMoveMade(stGame)
    /\ stHandlers' = [stHandlers EXCEPT ![i] = HandlerIdle]
    /\ stSent' = "none"
    /\ UNCHANGED <<stRematch, stPage, stSeen>>
    /\ StartFrame

\* handleGameEnd and newGame up to the delay, lines 233-301 and 769-783:
\* the awaits on the page have answered
GameEnd(i) ==
    /\ stHandlers[i].pc = "handleGameEnd"
    /\ \E autoStartEnabled \in BOOLEAN :
          IF autoStartEnabled = FALSE
          THEN /\ stHandlers' = [stHandlers EXCEPT ![i] = HandlerIdle]
               /\ stSeen' = [stSeen EXCEPT !.ended = FALSE, !.rematch = FALSE]
               /\ UNCHANGED <<stGame, stRematch>>
          ELSE /\ stGame' = reset
               /\ stRematch' = FALSE
               /\ stHandlers' = [stHandlers EXCEPT ![i].pc = "autoStartDelay"]
               /\ UNCHANGED stSeen
    /\ stSent' = "none"
    /\ UNCHANGED stPage
    /\ StartFrame

\* newGame, lines 787-796: the delay is over
DelayOver(i) ==
    /\ stHandlers[i].pc = "autoStartDelay"
    /\ stSent' = IF stRematch THEN "none" ELSE "navigate"
    /\ stHandlers' = [stHandlers EXCEPT ![i] = HandlerIdle]
    /\ stSeen' = [stSeen EXCEPT !.ended = FALSE, !.rematch = FALSE]
    /\ UNCHANGED <<stGame, stRematch, stPage>>
    /\ StartFrame

\* the page shows a new game, after the end of the last one was handled
GameStarts ==
    /\ ~stPage.playing
    /\ ~stSeen.ended
    /\ \E white \in BOOLEAN, automove \in BOOLEAN :
          stPage' = [playing |-> TRUE, white |-> white, automove |-> automove]
    /\ stSeen' = [stSeen EXCEPT !.firsts = 0]
    /\ stSent' = "none"
    /\ UNCHANGED <<stGame, stRematch, stHandlers>>
    /\ StartFrame

NextStart ==
    \/ OnStartCrowd
    \/ OnStartMove
    \/ OnStartReload
    \/ OnStartEndData
    \/ GameStarts
    \/ \E i \in 1..MaxPending :
          \/ ColorRead(i)
          \/ AutomoveRead(i)
          \/ FirstSent(i)
          \/ GameEnd(i)
          \/ DelayOver(i)

SpecStart == InitStart /\ [][NextStart]_vars

\* the answers of the page and the timer arrive, and the handler goes on;
\* the page pings the server again and again and gets its 0
StartFairness ==
    /\ \A i \in 1..MaxPending :
          /\ WF_vars(ColorRead(i))
          /\ WF_vars(AutomoveRead(i))
          /\ WF_vars(FirstSent(i))
          /\ WF_vars(GameEnd(i))
          /\ WF_vars(DelayOver(i))
    /\ SF_vars(OnStartCrowd)

SpecStartLive == InitStart /\ [][NextStart]_vars /\ StartFairness

(***************************************************************************)
(* Claims about pickGaslightMove (SpecSelect)                              *)
(***************************************************************************)
Picked == moveInfo # NoMoveInfo

\* the surviving candidates: the info lines at the depth of the last line
Survivors ==
    { j \in 1..Len(result.info) :
        result.info[j].depth = result.info[Len(result.info)].depth }

ScoreOf(j) == NumScore(result.info, j, cfg)

IsBest(j) == \A k \in Survivors : ~KeyLess(ScoreOf(j), ScoreOf(k))

BestSurvivor == CHOOSE j \in Survivors : IsBest(j)

MinAcceptable ==
    LET best == ScoreOf(BestSurvivor)
    IN KeyMax(Key(best.w - cfg.maxScoreLoss, best.f), Key(cfg.scoreFloor, 0))

AboveMin ==
    LET m == MinAcceptable
    IN { j \in Survivors : KeyLess(m, ScoreOf(j)) }

\* C1 as claimed: the selected normalized score s always satisfies
\* max(bestScore - maxScoreLoss, scoreFloor) < s <= bestScore.
C1_ScoreInBand ==
    Picked =>
        /\ KeyLess(MinAcceptable, selectedScore)
        /\ ~KeyLess(ScoreOf(BestSurvivor), selectedScore)

\* C1 amended: s is the score of a survivor and s <= bestScore; s is above
\* max(bestScore - maxScoreLoss, scoreFloor) whenever some survivor is, and
\* otherwise (maxScoreLoss = 0, or bestScore <= scoreFloor) s = bestScore.
C1_ScoreInBandOrBest ==
    Picked =>
        /\ \E j \in Survivors : selectedScore = ScoreOf(j)
        /\ ~KeyLess(ScoreOf(BestSurvivor), selectedScore)
        /\ IF AboveMin # {}
           THEN KeyLess(MinAcceptable, selectedScore)
           ELSE selectedScore = ScoreOf(BestSurvivor)

\* a suboptimal move inside the band was selected while a survivor lay below it
C1_Witness ==
    /\ Picked
    /\ KeyLess(MinAcceptable, selectedScore)
    /\ KeyLess(selectedScore, ScoreOf(BestSurvivor))
    /\ \E j \in Survivors : KeyLess(ScoreOf(j), MinAcceptable)

\* C2: the move returned is the move of the lowest-scoring survivor above
\* minAcceptable; when no survivor is above it, the move of the best-scoring
\* survivor; with maxScoreLoss 200, scoreFloor -700 and candidates
\* [300, 150, 50, -50] it is the candidate scored 150.
C2_LowestAboveMinOrBest ==
    Picked =>
        /\ LET above == AboveMin
           IN IF above # {}
              THEN \E j \in above :
                      /\ \A k \in above : ~KeyLess(ScoreOf(k), ScoreOf(j))
                      /\ moveInfo.move = result.info[j].pv
              ELSE moveInfo.move = result.info[BestSurvivor].pv
        /\ (result.info = ExampleInfo /\ cfg = BandConfig(10000000, 200, -700))
              => (moveInfo.move = "d2d4" /\ moveInfo.score = 150)

C2_Witness ==
    /\ Picked
    /\ result.info = ExampleInfo
    /\ cfg = BandConfig(10000000, 200, -700)
    /\ MinAcceptable.w = 100
    /\ moveInfo.score = 150

\* the best survivor lies below scoreFloor and is the one returned
C2_WitnessBelowFloor ==
    /\ Picked
    /\ Cardinality(Survivors) > 1
    /\ ScoreOf(BestSurvivor).w < cfg.scoreFloor
    /\ moveInfo.move = result.info[BestSurvivor].pv

Abs(n) == IF n < 0 THEN 0 - n ELSE n

\* C10: a mate-in-N line (N > 0) has a normalized score, tie-break offset
\* included, strictly above that of every centipawn line, when mateBoost
\* exceeds the centipawn magnitude plus N.
C10_MateDominatesCentipawns ==
    Picked =>
        \A j \in 1..Len(result.info), k \in 1..Len(result.info) :
            ( /\ result.info[j].unit = "mate"
              /\ result.info[j].score > 0
              /\ result.info[k].unit = "cp"
              /\ cfg.mateBoost > Abs(result.info[k].score) + result.info[j].score )
            => KeyLess(ScoreOf(k), ScoreOf(j))

\* a mate line placed before a centipawn line of a larger raw number
C10_Witness ==
    /\ Picked
    /\ \E j \in Survivors, k \in Survivors :
          /\ j < k
          /\ result.info[j].unit = "mate" /\ result.info[j].score > 0
          /\ result.info[k].unit = "cp" /\ result.info[k].score > result.info[j].score
          /\ cfg.mateBoost > Abs(result.info[k].score) + result.info[j].score

\* the info line whose key was selected (its tie-break offset is length - i)
SelectedLine == result.info[Len(result.info) - selectedScore.f + 1]

\* C11: before the tie-break offset, the normalized score of a centipawn
\* line is its score, of a mate line with n > 0 it is mateBoost - n, and of
\* a mate line with n < 0 it is -mateBoost - n; with mateBoost 10000000,
\* mate in 3 gives 9999997 and mate in -1 gives -9999999.
C11_Normalization ==
    Picked =>
        /\ SelectedLine.unit = "cp" => selectedScore.w = SelectedLine.score
        /\ (SelectedLine.unit = "mate" /\ SelectedLine.score > 0)
              => selectedScore.w = cfg.mateBoost - SelectedLine.score
        /\ (SelectedLine.unit = "mate" /\ SelectedLine.score < 0)
              => selectedScore.w = (0 - cfg.mateBoost) - SelectedLine.score
        /\ (cfg.mateBoost = 10000000 /\ SelectedLine.unit = "mate")
              => /\ SelectedLine.score = 3 => selectedScore.w = 9999997
                 /\ SelectedLine.score = -1 => selectedScore.w = -9999999

\* a line scored mate in -1 was selected under mateBoost 10000000
C11_Witness ==
    /\ Picked
    /\ cfg.mateBoost = 10000000
    /\ SelectedLine.unit = "mate"
    /\ SelectedLine.score = -1
    /\ selectedScore.w = -9999999

\* C36 as claimed, under the configuration of config.js:7-9: when the best
\* surviving candidate is a mate in N > 0 and mateBoost - maxScoreLoss
\* exceeds scoreFloor and the magnitude of every centipawn score reported,
\* the move information returned is that of a mate for the side to move,
\* never one scored in centipawns.
C36_MateStaysMate ==
    ( /\ Picked
      /\ cfg = BandConfig(10000000, 200, -700)
      /\ result.info[BestSurvivor].unit = "mate"
      /\ result.info[BestSurvivor].score > 0
      /\ cfg.mateBoost - cfg.maxScoreLoss > cfg.scoreFloor
      /\ \A j \in 1..Len(result.info) :
            result.info[j].unit = "cp"
               => cfg.mateBoost - cfg.maxScoreLoss > Abs(result.info[j].score) )
    => (moveInfo.scoreunit = "mate" /\ moveInfo.score > 0)

\* C37: among the reported lines, as their keys are compared: of two mates
\* for the side to move the one in fewer moves has the higher key, of two
\* mates against the side to move the one in more moves has the higher key,
\* and a mate against the side to move has a lower key than a mate for it.
C37_MatePreference ==
    Picked =>
        \A j \in 1..Len(result.info), k \in 1..Len(result.info) :
            (result.info[j].unit = "mate" /\ result.info[k].unit = "mate") =>
                LET a == result.info[j].score
                    b == result.info[k].score
                IN /\ (0 < a /\ a < b) => KeyLess(ScoreOf(k), ScoreOf(j))
                   /\ (a < b /\ b < 0) => KeyLess(ScoreOf(k), ScoreOf(j))
                   /\ (a < 0 /\ 0 < b) => KeyLess(ScoreOf(j), ScoreOf(k))

\* mate in 3 was reported before mate in 1: the later line, whose tie-break
\* offset is the smaller, has the higher key
C37_Witness ==
    /\ Picked
    /\ Len(result.info) = 2
    /\ result.info[1].unit = "mate" /\ result.info[1].score = 3
    /\ result.info[2].unit = "mate" /\ result.info[2].score = 1
    /\ KeyLess(ScoreOf(1), ScoreOf(2))

\* mated in 1 was reported before mated in 3, which has the higher key
C37_WitnessMated ==
    /\ Picked
    /\ Len(result.info) = 2
    /\ result.info[1].unit = "mate" /\ result.info[1].score = -1
    /\ result.info[2].unit = "mate" /\ result.info[2].score = -3
    /\ KeyLess(ScoreOf(1), ScoreOf(2))

\* C23 as claimed: the move, score and unit returned are those of the info
\* line that was selected, also when a first move occurs in several lines
\* of the selected depth.
C23_OwnRawScore ==
    Picked =>
        /\ moveInfo.move = SelectedLine.pv
        /\ moveInfo.score = SelectedLine.score
        /\ moveInfo.scoreunit = SelectedLine.unit

\* the greatest depth over all reported lines
DeepestDepth ==
    CHOOSE d \in Depths :
        /\ \E j \in 1..Len(result.info) : result.info[j].depth = d
        /\ \A j \in 1..Len(result.info) : result.info[j].depth <= d

Deepest == { j \in 1..Len(result.info) : result.info[j].depth = DeepestDepth }

\* C24 as claimed: the candidates are exactly the lines at the greatest
\* depth over all reported lines: the keys collected are the keys of those
\* lines, and the line selected and the depth returned are of that depth.
C24_CandidatesAtMaxDepth ==
    Picked =>
        /\ DOMAIN Dicts(result.info, cfg).numScoreMoveDict = { ScoreOf(j) : j \in Deepest }
        /\ SelectedLine.depth = DeepestDepth
        /\ moveInfo.depth = DeepestDepth

\* C25: the key of every candidate is its integer normalized score plus an
\* offset strictly between 0 and 1; the candidates have pairwise distinct
\* keys, so the dictionary holds one key per candidate; and two candidates
\* whose integer normalized scores differ are ordered by their keys as by
\* those scores.
C25_TieBreakOffset ==
    Picked =>
        LET keys == [j \in Survivors |-> ScoreOf(j)]
            norm == [j \in Survivors |->
                        Normalize(result.info[j].score, result.info[j].unit, cfg)]
        IN /\ \A j \in Survivors :
                 keys[j].w = norm[j] /\ keys[j].f > 0 /\ keys[j].f < TieScale
           /\ \A j, k \in Survivors : j # k => keys[j] # keys[k]
           /\ Cardinality(DOMAIN Dicts(result.info, cfg).numScoreMoveDict)
                 = Cardinality(Survivors)
           /\ \A j, k \in Survivors :
                 norm[j] < norm[k] => KeyLess(keys[j], keys[k])

\* two candidates with the same normalized score were kept apart, and the
\* one reported earlier, whose offset is larger, was selected
C25_Witness ==
    /\ Picked
    /\ \E j, k \in Survivors :
          /\ j < k
          /\ result.info[j].pv # result.info[k].pv
          /\ ScoreOf(j).w = ScoreOf(k).w
          /\ selectedScore = ScoreOf(j)
          /\ moveInfo.move = result.info[j].pv

(***************************************************************************)
(* Claims about the smack mode controller (SpecSmack)                      *)
(***************************************************************************)
\* C8: a call made while smack mode is off escalates exactly when
\* moveCounter > maxMoves or remaining < minTime or score > maxScoreCeiling,
\* or moveCounter >= minMoves and score <= minScore (a missing clock
\* reading is below no threshold).
C8_EscalatesIff ==
    (smackAfter # "none" /\ ~smackArgs.before) =>
        ( (smackAfter = "on") <=>
            \/ smackArgs.gameMoveCounter > smackArgs.maxMoves
            \/ (smackArgs.timeLeft # None /\ smackArgs.timeLeft[1] < smackArgs.minTime)
            \/ smackArgs.score > smackArgs.smackModeMaxScore
            \/ ( /\ smackArgs.gameMoveCounter >= smackArgs.minMoves
                 /\ smackArgs.score <= smackArgs.minScore ) )

\* escalation by the second rule alone
C8_Witness ==
    /\ smackAfter = "on"
    /\ ~smackArgs.before
    /\ smackArgs.gameMoveCounter <= smackArgs.maxMoves
    /\ ~(smackArgs.timeLeft # None /\ smackArgs.timeLeft[1] < smackArgs.minTime)
    /\ smackArgs.score <= smackArgs.smackModeMaxScore
    /\ smackArgs.gameMoveCounter >= smackArgs.minMoves
    /\ smackArgs.score <= smackArgs.minScore

(***************************************************************************)
(* Claims about the movetime scheduling (SpecTime)                         *)
(***************************************************************************)
TimeTable == timeArgs.config.timeThresholds

\* the floors that 100 * remaining / initialBudget reaches, in exact arithmetic
FloorsReached ==
    IF timeArgs.timeLeft = None \/ timeArgs.initialGameTime = None THEN {}
    ELSE { f \in DOMAIN TimeTable :
             f * timeArgs.initialGameTime[1] <= 100 * timeArgs.timeLeft[1] }

\* C12 as claimed: the movetime getDynamicMovetime produces is at least
\* minimumMovetime, whatever the remaining time, the initial budget (unset
\* included), the table, the default movetime and the variance.
C12_AtLeastMinimum ==
    timeOut.dynamic => timeOut.movetime >= timeArgs.config.minimumMovetime

\* C13 as claimed: when the matched threshold has variance 0, the movetime
\* produced equals that threshold's configured movetime.
C13_ExactWithoutJitter ==
    ( /\ timeOut.dynamic
      /\ timeOut.matched # None
      /\ TimeTable[timeOut.matched[1]].variance = 0 )
    => timeOut.movetime = TimeTable[timeOut.matched[1]].movetime

\* C13 amended: when the matched threshold has variance 0, the movetime
\* produced equals the larger of minimumMovetime and that threshold's
\* configured movetime.
C13_ExactOrMinimumWithoutJitter ==
    ( /\ timeOut.dynamic
      /\ timeOut.matched # None
      /\ TimeTable[timeOut.matched[1]].variance = 0 )
    => timeOut.movetime = Max(timeArgs.config.minimumMovetime,
                              TimeTable[timeOut.matched[1]].movetime)

\* a threshold without variance was matched and its movetime came out
C13_Witness ==
    /\ timeOut.dynamic
    /\ timeOut.matched = Some(61)
    /\ TimeTable = ExampleThresholds
    /\ TimeTable[61].variance = 0
    /\ timeOut.movetime = 1500

\* C14 as claimed: with an initial budget set, the entry used is the one
\* with the highest floor <= 100 * remaining / initialBudget, and the
\* default when no floor is; 35 percent with the floors {61, 50, 40, 30, 5}
\* uses floor 30 with base movetime 2500.
C14_HighestFloorReached ==
    (timeOut.dynamic /\ timeArgs.initialGameTime # None) =>
        /\ IF FloorsReached = {}
           THEN /\ timeOut.matched = None
                /\ timeOut.movetimeValue = timeArgs.config.defaultMovetime
           ELSE \E f \in FloorsReached :
                   /\ \A g \in FloorsReached : g <= f
                   /\ timeOut.matched = Some(f)
                   /\ timeOut.movetimeValue = TimeTable[f].movetime
        /\ ( /\ TimeTable = ExampleThresholds
             /\ timeArgs.timeLeft = Some(35)
             /\ timeArgs.initialGameTime = Some(100) )
           => (timeOut.matched = Some(30) /\ timeOut.movetimeValue = 2500)

\* C21 as claimed: with the scheduler on, whenever the critical-time mode
\* is enabled, the session is in smack mode and remaining is below
\* criticalTimeThreshold, the movetime is criticalTimeMovetime; outside
\* smack mode the critical-time movetime is never used.
C21_CriticalOnlyInSmackMode ==
    (timeOut # TimeIdle /\ timeArgs.adjustSpeedEnabled) =>
        /\ ( /\ timeArgs.config.criticalTimeEnabled
             /\ timeArgs.smackModeEnabled
             /\ JsLess(timeArgs.timeLeft, timeArgs.config.criticalTimeThreshold) )
           => ( /\ timeOut.critical
                /\ timeOut.movetime = timeArgs.config.criticalTimeMovetime )
        /\ ~timeArgs.smackModeEnabled => ~timeOut.critical

\* C22 as claimed: with the scheduler on, gaslighting enabled and the
\* session not escalated, the movetime does not come from the percentage
\* table: no floor of the table is matched and getDynamicMovetime is not
\* what sets it.
C22_GaslightIgnoresTable ==
    ( /\ timeOut # TimeIdle
      /\ timeArgs.adjustSpeedEnabled
      /\ timeArgs.gaslightingEnabled
      /\ ~timeArgs.smackModeEnabled )
    => (timeOut.matched = None /\ ~timeOut.dynamic)

\* the values movetimeValue + jitter may take for a selected entry
JitterRange(b) == (b.movetimeValue - b.variance)..(b.movetimeValue + b.variance)

\* C26: when getDynamicMovetime goes through the table, its result is the
\* clamp of a value in [selected.movetime - variance, selected.movetime +
\* variance], and before the call every integer of that range is a value
\* the call can produce (clamped).
C26_JitterBoundedSymmetric ==
    /\ (timeOut.dynamic /\ timeArgs.initialGameTime # None)
          => \E x \in JitterRange(timeOut) :
                timeOut.movetime = Max(timeArgs.config.minimumMovetime, x)
    /\ ( /\ timeOut = TimeIdle
         /\ timeArgs.adjustSpeedEnabled
         /\ ~(timeArgs.gaslightingEnabled /\ timeArgs.smackModeEnabled)
         /\ timeArgs.initialGameTime # None )
          => \A x \in JitterRange(SettingsBase(timeArgs)) :
                ENABLED ( /\ SetMovetime
                          /\ timeOut'.movetime = Max(timeArgs.config.minimumMovetime, x) )

\* an entry with variance was matched and the lowest value of the range,
\* above the minimum, came out
C26_Witness ==
    /\ timeOut.dynamic
    /\ timeOut.matched # None
    /\ timeOut.variance = MaxVariance
    /\ timeOut.movetime = timeOut.movetimeValue - MaxVariance
    /\ timeOut.movetime > timeArgs.config.minimumMovetime

C39_StoredMovetimeFresh ==
    (timeArgs.adjustSpeedEnabled /\ timeOut.set)
        => windowMovetime = timeOut.movetime + 1

(***************************************************************************)
(* Claims about the move server (SpecEngine)                               *)
(***************************************************************************)
\* C15 as claimed: no two analysis queries are in flight against the engine
\* at the same time: while one query is between its setoption and the
\* return of its search, no other query has issued a command.
C15_OneQueryInFlight ==
    \A i, j \in 1..MaxRequests : (InFlight(i) /\ InFlight(j)) => i = j

(***************************************************************************)
(* Claims about the handler as an async function (SpecReentry)             *)
(***************************************************************************)
\* C16 as claimed: event handling is not re-entrant: while the handling of
\* a move notification is unfinished, the only step that reads or changes
\* the session is the one that finishes it; no other event is handled.
C16_HandledOneAtATime ==
    [][rePending # {} =>
          \E h \in rePending : rePending' = rePending \ {h}]_vars

\* C33 as claimed: a handler that was suspended at its query to the move
\* server when the game's end was processed and the session reset sends no
\* engine-selected move when it is resumed.
C33_NoMoveAfterGameEnd ==
    [][ (reGame = reset /\ \E h \in rePending : rePending' = rePending \ {h})
          => reSent' # "engine" ]_vars

\* C31 as claimed: in a running game the opening first move has been
\* dispatched at most once.
C31_FirstMoveOnce == stPage.playing => stSeen.firsts <= 1

\* C34 as claimed: the delay of newGame never ends in the navigation to the
\* lobby when a rematchTaken has been received since the endData arrived.
C34_RematchStopsAutoQueue ==
    [][ stSeen.rematch => stSent' # "navigate" ]_vars

\* C32 as claimed: in a game the bot plays as White with automove on, the
\* opening first move is eventually dispatched.
C32_FirstMoveEventually ==
    (stPage.playing /\ stPage.white /\ stPage.automove) ~> (stSeen.firsts > 0)

(***************************************************************************)
(* Claims about the session (Spec, SpecPair)                               *)
(***************************************************************************)
\* C3 as claimed: two event sequences with the same move-carrying events,
\* differing in version numbers and in interleaved non-move events, agree on
\* isWhitesTurn() and on isBotsTurn() after every event.
C3_TurnIndependentOfTraffic ==
    /\ (pairA.gs.moveCounter % 2 = 0) = (pairB.gs.moveCounter % 2 = 0)
    /\ (pairA.gs.playerColorIsWhite = (pairA.gs.moveCounter % 2 = 0))
         = (pairB.gs.playerColorIsWhite = (pairB.gs.moveCounter % 2 = 0))

\* C4 as claimed: a move notification that carries a move adds exactly 1 to
\* moveCounter; every other event leaves it alone, except the reset to 0.
C4_CounterCountsMoves ==
    [][ /\ (lastMsg'.t = "move" /\ lastMsg'.uci)
            => gameState'.moveCounter = gameState.moveCounter + 1
        /\ ~(lastMsg'.t = "move" /\ lastMsg'.uci)
            => \/ gameState'.moveCounter = gameState.moveCounter
               \/ (lastMsg'.t = "endData" /\ gameState'.moveCounter = 0) ]_vars

\* C5: handling a move event queries the engine or sends a move only if,
\* after the counter update, botIsWhite = (moveCounter mod 2 = 0).
C5_ActsOnlyOnBotsTurn ==
    (lastMsg.t = "move" /\ (fx.query # "none" \/ fx.sent # "none"))
        => gameState.playerColorIsWhite = (gameState.moveCounter % 2 = 0)

\* a move event on the bot's turn that queried the engine and sent the reply
C5_Witness ==
    /\ lastMsg = Msg("move", TRUE)
    /\ gameState.playerColorIsWhite = (gameState.moveCounter % 2 = 0)
    /\ fx.query = "gaslight"
    /\ fx.sent = "engine"

\* C6 as claimed: when no event of the current game has been handled yet,
\* the session holds its initial values.
C6_GameStartsReset == fresh => gameState = reset

\* C7: smackModeEnabled, once set, is cleared by nothing but the reset.
C7_SmackModeSticky ==
    [][ (gameState.smackModeEnabled /\ ~gameState'.smackModeEnabled)
          => (lastMsg'.t = "endData" /\ gameState' = reset) ]_vars

\* escalated, and a later move event on the bot's turn was answered with the
\* best move and without a further evaluation
C7_Witness ==
    /\ gameState.smackModeEnabled
    /\ lastMsg = Msg("move", TRUE)
    /\ gameState.moveCounter <= SessionConfig.smackModeMaxMoves
    /\ fx.query = "best"
    /\ ~fx.evaluated
    /\ fx.moveInfo.score = 50

C18_ColourSetOnce ==
    [][ (past.colourSet /\ gameState'.playerColorIsWhite # gameState.playerColorIsWhite)
          => (lastMsg'.t = "endData" /\ gameState' = reset) ]_vars

\* C19 as claimed: after the first engine-selected move of a game no
\* scripted opening move is dispatched again, whatever the toggles do.
C19_NoOpeningAfterEngineMove ==
    [][ past.engineMoved => fx'.sent # "opening" ]_vars

\* C20: on the bot's turn with the bad opening enabled and still going, a
\* counted move event for which the table has no move, or whose scripted
\* move isValidMove rejects, ends the opening and goes on to query the move
\* server, whose move (when it answers) is the one dispatched; once ended,
\* the opening stays ended until the reset.
C20_OpeningEndsForGood ==
    [][ /\ ( /\ lastMsg' = Msg("move", TRUE)
             /\ gameState'.moveCounter = gameState.moveCounter + 1
             /\ isBotsTurn(gameState')
             /\ lastEnv'.badOpening
             /\ gameState.badOpeningOngoing
             /\ \/ GetBongcloudOpeningMove(gameState'.moveCounter) = NoValue
                \/ ~lastEnv'.valid )
           => /\ ~gameState'.badOpeningOngoing
              /\ fx'.sent # "opening"
              /\ fx'.query # "none"
              /\ ~lastEnv'.engineDown => (fx'.moveInfo # NoMoveInfo /\ ~fx'.threw)
        /\ ~gameState.badOpeningOngoing
           => \/ ~gameState'.badOpeningOngoing
              \/ (lastMsg'.t = "endData" /\ gameState' = reset) ]_vars

\* the opening was going until the table ran out on the bot's turn, and the
\* same event dispatched the move server's move
C20_Witness ==
    /\ lastMsg = Msg("move", TRUE)
    /\ past.ongoingBefore
    /\ ~gameState.badOpeningOngoing
    /\ lastEnv.badOpening
    /\ lastEnv.valid
    /\ GetBongcloudOpeningMove(gameState.moveCounter) = NoValue
    /\ fx.sent = "engine"

\* the opening was going until isValidMove rejected the scripted move, and
\* the same event dispatched the move server's move
C20_WitnessRejected ==
    /\ lastMsg = Msg("move", TRUE)
    /\ past.ongoingBefore
    /\ ~gameState.badOpeningOngoing
    /\ lastEnv.badOpening
    /\ ~lastEnv.valid
    /\ GetBongcloudOpeningMove(gameState.moveCounter) # NoValue
    /\ fx.sent = "engine"

\* C28: once initialGameTime is non-null, no event changes it, whatever
\* clock reading it carries, except the reset of the session.
C28_InitialGameTimeSetOnce ==
    [][ gameState.initialGameTime # None
          => \/ gameState'.initialGameTime = gameState.initialGameTime
             \/ (lastMsg'.t = "endData" /\ gameState' = reset) ]_vars

\* the first reading was 60; a later move event on the bot's turn carried
\* the reading 30 and went on to query the move server
C28_Witness ==
    /\ gameState.initialGameTime = Some(60)
    /\ lastMsg = Msg("move", TRUE)
    /\ lastPlay.clock = Some(30)
    /\ fx.query # "none"

C29_WitnessDisabled ==
    /\ ~gameState.smackModeEnabled
    /\ lastMsg = Msg("move", TRUE)
    /\ ~lastPlay.gaslighting
    /\ fx.query = "best"
    /\ fx.sent = "engine"

\* C30 as claimed: a query that has reached the search always ends, the
\* request is answered (with a result or a failure) and its handler is gone.
C30_QueryEnds ==
    \A i \in 1..MaxRequests : (queries[i].pc = "go") ~> (queries[i].pc = "idle")

\* C38: a scripted-opening move that is dispatched is the table's entry for
\* moveCounter and a move of the bot's colour, an entry of White's king walk
\* (even moveCounter) when the bot is White and of Black's (odd moveCounter)
\* when it is Black; the opening first move is dispatched at moveCounter 0
\* by a bot that is White and is a move of White.
C38_OpeningMoveOfOwnColour ==
    /\ fx.sent = "opening"
          => /\ GetBongcloudOpeningMove(gameState.moveCounter)
                   \in (IF gameState.playerColorIsWhite
                        THEN WhiteKingWalk ELSE BlackKingWalk)
             /\ gameState.playerColorIsWhite = (gameState.moveCounter % 2 = 0)
    /\ fx.sent = "first"
          => /\ gameState.playerColorIsWhite
             /\ gameState.moveCounter = 0
             /\ GetBongcloudOpeningMove(gameState.moveCounter) \in WhiteKingWalk

\* the bot is Black and its second scripted move, e8e7, was dispatched
C38_Witness ==
    /\ fx.sent = "opening"
    /\ ~gameState.playerColorIsWhite
    /\ gameState.moveCounter = 3
    /\ GetBongcloudOpeningMove(gameState.moveCounter) = "e8e7"

\* the bot is White and a scripted move after the first was dispatched
C38_WitnessWhite ==
    /\ fx.sent = "opening"
    /\ gameState.playerColorIsWhite
    /\ gameState.moveCounter = 2

C40_WitnessOpening ==
    /\ ~lastEnv.automove
    /\ lastMsg = Msg("move", TRUE)
    /\ lastEnv.badOpening /\ lastEnv.valid
    /\ gameState.badOpeningOngoing
    /\ gameState.playerColorIsWhite = (gameState.moveCounter % 2 = 0)
    /\ gameState.moveCounter \in DOMAIN BongcloudMoves
    /\ fx.query = "none"
    /\ fx.sent = "none"

C35_WitnessNextTurn ==
    /\ lastMsg = Msg("move", TRUE)
    /\ gameState.smackModeEnabled
    /\ lastPlay.gaslighting
    /\ fx.query = "best"
    /\ fx.sent = "engine"
    /\ fx.speed = "smack"

\* C9 as claimed: the evaluation compares the normalized score, so a gaslight
\* move scored mate for the bot (mateBoost - N > maxScoreCeiling) escalates,
\* and one scored mate against the bot counts as <= minScore and escalates
\* once moveCounter >= minMoves.
C9_MateScoreNormalized ==
    (fx.evaluated /\ fx.moveInfo.scoreunit = "mate") =>
        /\ fx.moveInfo.score > 0 => gameState.smackModeEnabled
        /\ (fx.moveInfo.score < 0
              /\ gameState.moveCounter >= SessionConfig.smackModeMinMoves)
             => gameState.smackModeEnabled

====
